---- MODULE Spec2Model ----
(***************************************************************************)
(* A model of the nutrition LINE bot of src/app.py: the per-user           *)
(* conversation state (user_states), the four tables of nutrition_bot.db   *)
(* and the handlers that change them.                                      *)
(*                                                                         *)
(* A text is a sequence of characters. An ASCII character is written as    *)
(* itself, any other one as "U" followed by its code point, so "取消" is    *)
(* <<"U53D6", "U6D88">>.                                                   *)
(***************************************************************************)
EXTENDS Integers, Sequences, FiniteSets, TLC

(***************************************************************************)
(* Texts of the source                                                     *)
(***************************************************************************)

\* ['取消', 'cancel', '不要', '算了', '沒事', '不用了']
cancel_keywords ==
    { <<"U53D6", "U6D88">>,
      <<"c", "a", "n", "c", "e", "l">>,
      <<"U4E0D", "U8981">>,
      <<"U7B97", "U4E86">>,
      <<"U6C92", "U4E8B">>,
      <<"U4E0D", "U7528", "U4E86">> }

\* ['重新啟動', '重啟', 'restart', 'reset', '重置', '重新開始', '清除', '初始化', '卡住了', '不動了', '重來']
restart_keywords ==
    { <<"U91CD", "U65B0", "U555F", "U52D5">>,
      <<"U91CD", "U555F">>,
      <<"r", "e", "s", "t", "a", "r", "t">>,
      <<"r", "e", "s", "e", "t">>,
      <<"U91CD", "U7F6E">>,
      <<"U91CD", "U65B0", "U958B", "U59CB">>,
      <<"U6E05", "U9664">>,
      <<"U521D", "U59CB", "U5316">>,
      <<"U5361", "U4F4F", "U4E86">>,
      <<"U4E0D", "U52D5", "U4E86">>,
      <<"U91CD", "U4F86">> }

\* ['飲食記錄', '記錄飲食', '記錄', '飲食', '記錄食物', '食物記錄']
record_keywords ==
    { <<"U98F2", "U98DF", "U8A18", "U9304">>,
      <<"U8A18", "U9304", "U98F2", "U98DF">>,
      <<"U8A18", "U9304">>,
      <<"U98F2", "U98DF">>,
      <<"U8A18", "U9304", "U98DF", "U7269">>,
      <<"U98DF", "U7269", "U8A18", "U9304">> }

\* ["開始", "hi", "hello", "你好", "Hello", "Hi", "Hello"]
welcome_texts ==
    { <<"U958B", "U59CB">>,
      <<"h", "i">>,
      <<"h", "e", "l", "l", "o">>,
      <<"U4F60", "U597D">>,
      <<"H", "e", "l", "l", "o">>,
      <<"H", "i">> }

\* "設定個人資料", "週報告", "我的資料", "使用說明", "飲食建議", "今日進度": the texts compared with ==
main_commands ==
    [ start_profile_setup |-> <<"U8A2D", "U5B9A", "U500B", "U4EBA", "U8CC7", "U6599">>,
      generate_weekly_report |-> <<"U9031", "U5831", "U544A">>,
      show_user_profile |-> <<"U6211", "U7684", "U8CC7", "U6599">>,
      show_instructions |-> <<"U4F7F", "U7528", "U8AAA", "U660E">>,
      provide_meal_suggestions |-> <<"U98F2", "U98DF", "U5EFA", "U8B70">>,
      show_daily_progress |-> <<"U4ECA", "U65E5", "U9032", "U5EA6">> ]

\* "✅ 正確，請記錄"
TextConfirm ==
    <<"U2705", " ", "U6B63", "U78BA", "UFF0C", "U8ACB", "U8A18", "U9304">>

\* "❌ 錯誤，重新輸入"
TextReject ==
    <<"U274C", " ", "U932F", "U8AA4", "UFF0C", "U91CD", "U65B0", "U8F38", "U5165">>

\* ['推薦', '建議', '吃什麼', '不知道要吃什麼', '給我建議', '推薦食物', '今天吃什麼', '早餐吃什麼', '午餐吃什麼', '晚餐吃什麼']
suggestion_keywords ==
    { <<"U63A8", "U85A6">>,
      <<"U5EFA", "U8B70">>,
      <<"U5403", "U4EC0", "U9EBC">>,
      <<"U4E0D", "U77E5", "U9053", "U8981", "U5403", "U4EC0", "U9EBC">>,
      <<"U7D66", "U6211", "U5EFA", "U8B70">>,
      <<"U63A8", "U85A6", "U98DF", "U7269">>,
      <<"U4ECA", "U5929", "U5403", "U4EC0", "U9EBC">>,
      <<"U65E9", "U9910", "U5403", "U4EC0", "U9EBC">>,
      <<"U5348", "U9910", "U5403", "U4EC0", "U9EBC">>,
      <<"U665A", "U9910", "U5403", "U4EC0", "U9EBC">> }

\* ['可以吃', '能吃', '適合', '會不會', '這個好嗎', '有什麼影響', '建議吃', '怎麼吃', '份量']
consultation_keywords ==
    { <<"U53EF", "U4EE5", "U5403">>,
      <<"U80FD", "U5403">>,
      <<"U9069", "U5408">>,
      <<"U6703", "U4E0D", "U6703">>,
      <<"U9019", "U500B", "U597D", "U55CE">>,
      <<"U6709", "U4EC0", "U9EBC", "U5F71", "U97FF">>,
      <<"U5EFA", "U8B70", "U5403">>,
      <<"U600E", "U9EBC", "U5403">>,
      <<"U4EFD", "U91CF">> }

\* '?' and '？'
question_marks ==
    { <<"?">>,
      <<"UFF1F">> }

\* the keyword list of _update_food_preferences_with_conn, in its order
food_keywords ==
    << <<"U98EF">>,
       <<"U9EB5">>,
       <<"U96DE", "U8089">>,
       <<"U8C6C", "U8089">>,
       <<"U725B", "U8089">>,
       <<"U9B5A">>,
       <<"U8766">>,
       <<"U86CB">>,
       <<"U8C46", "U8150">>,
       <<"U9752", "U83DC">>,
       <<"U9AD8", "U9E97", "U83DC">>,
       <<"U83E0", "U83DC">>,
       <<"U863F", "U8514">>,
       <<"U756A", "U8304">>,
       <<"U99AC", "U9234", "U85AF">>,
       <<"U5730", "U74DC">>,
       <<"U4FBF", "U7576">>,
       <<"U6C99", "U62C9">>,
       <<"U6E6F">>,
       <<"U7CA5">>,
       <<"U9EB5", "U5305">>,
       <<"U6C34", "U679C">>,
       <<"U512A", "U683C">>,
       <<"U5805", "U679C">>,
       <<"U7CD9", "U7C73">>,
       <<"U71D5", "U9EA5">>,
       <<"U96DE", "U80F8", "U8089">>,
       <<"U9BAD", "U9B5A">>,
       <<"U916A", "U68A8">>,
       <<"U82B1", "U6930", "U83DC">> >>

\* determine_meal_type: the word lists in the order they are tried, with 早餐, 午餐, 晚餐, 點心
meal_type_rules ==
    << [words |-> { <<"U65E9", "U9910">>,
                    <<"U65E9", "U4E0A">>,
                    <<"U65E9", "U98EF">>,
                    <<"m", "o", "r", "n", "i", "n", "g">>,
                    <<"U6668", "U9593">> },
        meal_type |-> <<"U65E9", "U9910">>],
       [words |-> { <<"U5348", "U9910">>,
                    <<"U4E2D", "U5348">>,
                    <<"U5348", "U98EF">>,
                    <<"l", "u", "n", "c", "h">>,
                    <<"U4E2D", "U9910">> },
        meal_type |-> <<"U5348", "U9910">>],
       [words |-> { <<"U665A", "U9910">>,
                    <<"U665A", "U4E0A">>,
                    <<"U665A", "U98EF">>,
                    <<"d", "i", "n", "n", "e", "r">>,
                    <<"U665A", "U98DF">> },
        meal_type |-> <<"U665A", "U9910">>],
       [words |-> { <<"U9EDE", "U5FC3">>,
                    <<"U96F6", "U98DF">>,
                    <<"U4E0B", "U5348", "U8336">>,
                    <<"s", "n", "a", "c", "k">>,
                    <<"U5BB5", "U591C">> },
        meal_type |-> <<"U9EDE", "U5FC3">>] >>

\* determine_meal_type: '餐點'
default_meal_type ==
    <<"U9910", "U9EDE">>

\* step gender: the tokens of 男性 and of 女性
gender_rules ==
    << [words |-> { <<"U7537", "U6027">>,
                    <<"U7537">>,
                    <<"m", "a", "l", "e">>,
                    <<"m">>,
                    <<"1">>,
                    <<"U5148", "U751F">> },
        gender |-> <<"U7537", "U6027">>],
       [words |-> { <<"U5973", "U6027">>,
                    <<"U5973">>,
                    <<"f", "e", "m", "a", "l", "e">>,
                    <<"f">>,
                    <<"2">>,
                    <<"U5C0F", "U59D0">> },
        gender |-> <<"U5973", "U6027">>] >>

\* step activity: the tokens of 低活動量, 中等活動量 and 高活動量
activity_rules ==
    << [words |-> { <<"U4F4E", "U6D3B", "U52D5", "U91CF">>,
                    <<"U4F4E">>,
                    <<"l", "o", "w">>,
                    <<"1">>,
                    <<"U5F88", "U5C11", "U904B", "U52D5">>,
                    <<"U4E45", "U5750">> },
        activity |-> <<"U4F4E", "U6D3B", "U52D5", "U91CF">>],
       [words |-> { <<"U4E2D", "U7B49", "U6D3B", "U52D5", "U91CF">>,
                    <<"U4E2D", "U7B49">>,
                    <<"U4E2D">>,
                    <<"m", "e", "d", "i", "u", "m">>,
                    <<"2">>,
                    <<"U9069", "U5EA6", "U904B", "U52D5">> },
        activity |-> <<"U4E2D", "U7B49", "U6D3B", "U52D5", "U91CF">>],
       [words |-> { <<"U9AD8", "U6D3B", "U52D5", "U91CF">>,
                    <<"U9AD8">>,
                    <<"h", "i", "g", "h">>,
                    <<"3">>,
                    <<"U7D93", "U5E38", "U904B", "U52D5">>,
                    <<"U5F88", "U591A", "U904B", "U52D5">> },
        activity |-> <<"U9AD8", "U6D3B", "U52D5", "U91CF">>] >>

\* step body_fat: "估算", "實測值", "跳過"
body_fat_choices ==
    [ estimate |-> <<"U4F30", "U7B97">>,
      measured |-> <<"U5BE6", "U6E2C", "U503C">>,
      skip |-> <<"U8DF3", "U904E">> ]

(***************************************************************************)
(* str.lower, str.strip and the operator "in" on texts                     *)
(***************************************************************************)

\* the letters str.lower changes among the characters of the model's texts
upper_case ==
    <<"A", "B", "C", "D", "E", "F", "G", "H", "I", "J", "K", "L", "M",
      "N", "O", "P", "Q", "R", "S", "T", "U", "V", "W", "X", "Y", "Z">>

lower_case ==
    <<"a", "b", "c", "d", "e", "f", "g", "h", "i", "j", "k", "l", "m",
      "n", "o", "p", "q", "r", "s", "t", "u", "v", "w", "x", "y", "z">>

\* str.lower on one character
lower_char(c) ==
    IF \E i \in 1..Len(upper_case) : upper_case[i] = c
    THEN lower_case[CHOOSE i \in 1..Len(upper_case) : upper_case[i] = c]
    ELSE c

\* str.lower
lower(text) ==
    IF text = <<>> THEN <<>> ELSE [i \in 1..Len(text) |-> lower_char(text[i])]

\* the characters str.strip removes: blank, tab, newline, ideographic space
whitespace ==
    {" ", "\t", "\n", "U3000"}

RECURSIVE lstrip(_)
lstrip(text) ==
    IF text # <<>> /\ Head(text) \in whitespace THEN lstrip(Tail(text)) ELSE text

RECURSIVE rstrip(_)
rstrip(text) ==
    IF text # <<>> /\ text[Len(text)] \in whitespace
    THEN rstrip(SubSeq(text, 1, Len(text) - 1))
    ELSE text

\* str.strip
strip(text) ==
    rstrip(lstrip(text))

\* keyword in text
contains(keyword, text) ==
    \E i \in 0..(Len(text) - Len(keyword)) :
        SubSeq(text, i + 1, i + Len(keyword)) = keyword

\* any(keyword in text for keyword in keywords)
contains_any(keywords, text) ==
    \E keyword \in keywords : contains(keyword, text)

\* "Cancel ": a cancel keyword in another case, with a trailing blank
MsgCancel ==
    <<"C", "a", "n", "c", "e", "l", " ">>

\* "reset": a restart keyword
MsgReset ==
    <<"r", "e", "s", "e", "t">>

\* "午餐雞肉飯": a lunch that names two preference keywords
MsgLunch ==
    <<"U5348", "U9910", "U96DE", "U8089", "U98EF">>

\* "蛋餅": a dish that names one preference keyword and no meal
MsgEgg ==
    <<"U86CB", "U9905">>

\* "今天吃什麼": a suggestion request
MsgSuggest ==
    <<"U4ECA", "U5929", "U5403", "U4EC0", "U9EBC">>

\* "能吃嗎？": a consultation
MsgConsult ==
    <<"U80FD", "U5403", "U55CE", "UFF1F">>

\* "25": an age, a height, a weight or a body-fat value
MsgNumber ==
    <<"2", "5">>

\* "1": the first gender choice and the first activity choice
MsgOne ==
    <<"1">>

\* "0": the number 0
MsgZero ==
    <<"0">>

\* "跳過體脂": the skip button of step body_fat
MsgSkipBodyFat ==
    <<"U8DF3", "U904E", "U9AD4", "U8102">>

\* "估算 22.0": the estimate button of step body_fat
MsgUseEstimate ==
    <<"U4F30", "U7B97", " ", "2", "2", ".", "0">>

\* "實測值": the measured-value button of step body_fat
MsgMeasured ==
    <<"U5BE6", "U6E2C", "U503C">>

\* "無": no dietary restriction
MsgNone ==
    <<"U7121">>

\* the texts users send in the model
Texts ==
    {MsgCancel, MsgReset, TextConfirm, TextReject, MsgLunch, MsgSuggest,
     main_commands.start_profile_setup, MsgNumber, MsgOne, MsgSkipBodyFat}

\* the answers sent to the wizard: a text, "25", "0", "1" and the three
\* buttons of step body_fat
AnswerTexts ==
    {MsgLunch, MsgNumber, MsgZero, MsgOne, MsgUseEstimate, MsgMeasured, MsgSkipBodyFat}

\* "建議吃什麼？": a suggestion keyword, a consultation keyword and a question mark
MsgSuggestOrConsult ==
    <<"U5EFA", "U8B70", "U5403", "U4EC0", "U9EBC", "UFF1F">>

\* "蛋餅份量": a consultation keyword and no question mark
MsgPortion ==
    <<"U86CB", "U9905", "U4EFD", "U91CF">>

\* "蛋餅?": an ASCII question mark and no keyword
MsgEggAsked ==
    <<"U86CB", "U9905", "?">>

\* "蛋餅？": a full-width question mark and no keyword
MsgEggAskedWide ==
    <<"U86CB", "U9905", "UFF1F">>

\* the texts whose intent is detected in the model
IntentTexts ==
    {MsgSuggest, MsgConsult, MsgSuggestOrConsult, MsgPortion, MsgEggAsked,
     MsgEggAskedWide, MsgLunch, MsgEgg}


(***************************************************************************)
(* Sample descriptions and generator answers of the extraction pipeline    *)
(***************************************************************************)

\* "豆漿": soy milk, no quantity
DescSoyMilk ==
    <<"U8C46", "U6F3F">>

\* "豆漿1杯": soy milk, one cup
DescSoyMilkCup ==
    <<"U8C46", "U6F3F", "1", "U676F">>

\* "咖啡": coffee, no quantity
DescCoffee ==
    <<"U5496", "U5561">>

\* "奶茶": milk tea, no quantity
DescMilkTea ==
    <<"U5976", "U8336">>

\* "奶茶250ml": milk tea, 250 mL
DescMilkTea250 ==
    <<"U5976", "U8336", "2", "5", "0", "m", "l">>

\* "水": water, no quantity
DescWater ==
    <<"U6C34">>

\* "水1杯": water, one cup
DescWaterCup ==
    <<"U6C34", "1", "U676F">>

\* "白飯": a bowl of rice, a keyword of both food tables
DescRice ==
    <<"U767D", "U98EF">>

\* "白飯青菜": rice and greens, two keywords of both food tables
DescRiceGreens ==
    <<"U767D", "U98EF", "U9752", "U83DC">>

\* the food descriptions analysed in the model
Descriptions ==
    {DescSoyMilk, DescSoyMilkCup, DescCoffee, DescMilkTea,
     DescMilkTea250, DescWater, DescWaterCup, DescRice, DescRiceGreens,
     MsgLunch}

\* "熱量：約720大卡\n碳水化合物：28g\n蛋白質：35g\n脂肪：25g\n纖維：4g": the analysis of test_nutrition_extraction
ProseMeal ==
    <<"U71B1", "U91CF", "UFF1A", "U7D04", "7", "2", "0", "U5927", "U5361", "\n",
      "U78B3", "U6C34", "U5316", "U5408", "U7269", "UFF1A", "2", "8", "g", "\n",
      "U86CB", "U767D", "U8CEA", "UFF1A", "3", "5", "g", "\n", "U8102", "U80AA",
      "UFF1A", "2", "5", "g", "\n", "U7E96", "U7DAD", "UFF1A", "4", "g">>

\* "熱量：132大卡，碳水化合物：13g，蛋白質：9g，脂肪：5g": the figures of the prompt for soy milk
ProseSoyMilk ==
    <<"U71B1", "U91CF", "UFF1A", "1", "3", "2", "U5927", "U5361", "UFF0C", "U78B3",
      "U6C34", "U5316", "U5408", "U7269", "UFF1A", "1", "3", "g", "UFF0C", "U86CB",
      "U767D", "U8CEA", "UFF1A", "9", "g", "UFF0C", "U8102", "U80AA", "UFF1A", "5", "g">>

\* "熱量：7大卡，碳水化合物：1g，蛋白質：0g，脂肪：0g": the figures of the prompt for black coffee
ProseCoffee ==
    <<"U71B1", "U91CF", "UFF1A", "7", "U5927", "U5361", "UFF0C", "U78B3", "U6C34",
      "U5316", "U5408", "U7269", "UFF1A", "1", "g", "UFF0C", "U86CB", "U767D", "U8CEA",
      "UFF1A", "0", "g", "UFF0C", "U8102", "U80AA", "UFF1A", "0", "g">>

\* "約250大卡": one loose figure, 250 kcal
ProseRich ==
    <<"U7D04", "2", "5", "0", "U5927", "U5361">>

\* "熱量: 1200.5大卡": an implausible figure
ProseHuge ==
    <<"U71B1", "U91CF", ":", " ", "1", "2", "0", "0", ".", "5", "U5927", "U5361">>

\* "熱量：0大卡，碳水化合物：0g，蛋白質：0g，脂肪：0g，纖維：0g，糖：0g": all figures zero
ProseZero ==
    <<"U71B1", "U91CF", "UFF1A", "0", "U5927", "U5361", "UFF0C", "U78B3", "U6C34",
      "U5316", "U5408", "U7269", "UFF1A", "0", "g", "UFF0C", "U86CB", "U767D", "U8CEA",
      "UFF1A", "0", "g", "UFF0C", "U8102", "U80AA", "UFF1A", "0", "g", "UFF0C",
      "U7E96", "U7DAD", "UFF1A", "0", "g", "UFF0C", "U7CD6", "UFF1A", "0", "g">>

\* "無法分析": no figure at all
ProseNoFigures ==
    <<"U7121", "U6CD5", "U5206", "U6790">>

\* the generator's answers in the model
Proses ==
    {ProseMeal,
     ProseSoyMilk,
     ProseCoffee,
     ProseRich,
     ProseHuge,
     ProseZero,
     ProseNoFigures}
(***************************************************************************)
(* Classification of a text: intent, meal type, route, preference keywords  *)
(***************************************************************************)

\* a variant of detect_intent that looks for a question mark first
detect_intent_question_mark_first(message) ==
    LET message_lower == lower(message)
    IN  IF contains_any(question_marks, message) THEN "consultation"
        ELSE IF contains_any(suggestion_keywords, message_lower) THEN "suggestion"
        ELSE IF contains_any(consultation_keywords, message_lower) THEN "consultation"
        ELSE "record"

\* MessageAnalyzer.detect_intent
detect_intent(message) ==
    LET message_lower == lower(message)
    IN  IF contains_any(suggestion_keywords, message_lower) THEN "suggestion"
        ELSE IF contains_any(consultation_keywords, message_lower) THEN "consultation"
        ELSE IF contains_any(question_marks, message) THEN "consultation"
        ELSE "record"

\* determine_meal_type
RECURSIVE meal_type_from(_, _)
meal_type_from(i, description_lower) ==
    IF i > Len(meal_type_rules) THEN default_meal_type
    ELSE IF contains_any(meal_type_rules[i].words, description_lower)
    THEN meal_type_rules[i].meal_type
    ELSE meal_type_from(i + 1, description_lower)

determine_meal_type(description) ==
    meal_type_from(1, lower(description))

\* handle_text_message: the branch taken for message_text when the user's step is
\* normal (the two keyword checks, then the main menu, then the intent)
main_route(message_text) ==
    LET key == strip(lower(message_text))
    IN  IF key \in cancel_keywords THEN "handle_cancel_request"
        ELSE IF key \in restart_keywords THEN "restart"
        ELSE IF key \in record_keywords THEN "handle_food_record_request"
        ELSE IF message_text \in welcome_texts THEN "handle_welcome"
        ELSE IF \E c \in DOMAIN main_commands : main_commands[c] = message_text
             THEN CHOOSE c \in DOMAIN main_commands : main_commands[c] = message_text
        ELSE LET intent == detect_intent(message_text)
             IN  IF intent = "suggestion" THEN "provide_meal_suggestions"
                 ELSE IF intent = "consultation" THEN "provide_food_consultation"
                 ELSE "analyze_food_description_with_confirmation"

\* main_route, determine_meal_type and the preference keywords of every text of
\* the model, computed once
text_table ==
    [text \in Texts \cup AnswerTexts \cup Descriptions \cup IntentTexts |->
        [route |-> main_route(text),
         meal_type |-> determine_meal_type(text),
         keywords |-> SelectSeq(food_keywords, LAMBDA keyword : contains(keyword, text))]]

(***************************************************************************)
(* Bounds of the model and sample inputs                                   *)
(***************************************************************************)

\* the meal_records table is never filled beyond this many rows
MaxRecords ==
    2

\* calls of handle_meal_record_confirmation followed at the same time
MaxCalls ==
    2

\* the clock never passes this tick
MaxTick ==
    3

\* steps of the clock in one calendar day
TicksPerDay ==
    2

\* LINE user ids
Users ==
    {"U1", "U2"}

(***************************************************************************)
(* State                                                                   *)
(***************************************************************************)

VARIABLES
    user_states,       \* the dict user_states: user id -> {'step', 'data' | 'confirm_data'}
    users,             \* table users: user id -> row
    meal_records,      \* table meal_records, in id order (row i has id i)
    daily_nutrition,   \* table daily_nutrition: a set of rows, each with its id
    daily_nutrition_seq, \* sqlite_sequence of daily_nutrition: the last id handed out
    food_preferences,  \* table food_preferences, in id order
    now,               \* the UTC clock, in ticks
    tz,                \* offset of the process's local time from UTC, in ticks
    replies,           \* the messages sent to LINE during the last handled event
    analyses,          \* the calls of analyze_food_description_with_confirmation in
                       \* progress: user id -> the call's position, locals and sends
    confirmations      \* the calls of handle_meal_record_confirmation in progress that
                       \* have read the pending entry: call -> user id and confirm_data

store ==
    <<users, meal_records, daily_nutrition, daily_nutrition_seq, food_preferences>>

ledger ==
    <<meal_records, daily_nutrition, daily_nutrition_seq, food_preferences>>

clock ==
    <<now, tz>>

calls ==
    <<analyses, confirmations>>

vars ==
    <<user_states, users, meal_records, daily_nutrition, daily_nutrition_seq,
      food_preferences, now, tz, replies, analyses, confirmations>>

\* the six nutrient columns
Nutrients ==
    {"calories", "carbs", "protein", "fat", "fiber", "sugar"}

\* user_states = {} ; an empty table
Empty ==
    <<>>

\* d[k] = v on a dict
Put(d, k, v) ==
    [x \in (DOMAIN d) \cup {k} |-> IF x = k THEN v ELSE d[x]]

\* {'step': 'normal'}
normal_state ==
    [step |-> "normal"]

\* line_bot_api.reply_message / push_message of one text to one user
Message(user_id, via, text) ==
    [to |-> user_id, via |-> via, text |-> text]

(***************************************************************************)
(* Clock                                                                   *)
(***************************************************************************)

\* datetime.now().strftime('%Y-%m-%d'): the calendar date of the process's local time
today ==
    (now + tz) \div TicksPerDay

\* DATE(recorded_at) of a CURRENT_TIMESTAMP: the calendar date in UTC
DATE(recorded_at) ==
    recorded_at \div TicksPerDay

(***************************************************************************)
(* UserManager: the writes of one confirmed record                         *)
(***************************************************************************)

\* SELECT COUNT(*) FROM meal_records WHERE user_id = ? AND DATE(recorded_at) = ?
record_count(records, user_id, date) ==
    Cardinality({i \in 1..Len(records) :
        records[i].user_id = user_id /\ DATE(records[i].recorded_at) = date})

\* a variant of _update_daily_nutrition_with_conn whose UPDATE sets the totals to
\* the new record's nutrients instead of adding them
update_daily_nutrition_overwriting(records, daily, seq, user_id, nutrition_data) ==
    LET existing == {r \in daily : r.user_id = user_id /\ r.date = today}
        row == [id |-> seq + 1, user_id |-> user_id, date |-> today,
                totals |-> nutrition_data,
                meal_count |-> record_count(records, user_id, today)]
    IN  IF existing # {}
        THEN [daily |-> {IF r \in existing THEN [row EXCEPT !.id = r.id] ELSE r :
                            r \in daily},
              seq |-> seq]
        ELSE [daily |-> daily \cup {row}, seq |-> seq + 1]

\* a variant of _update_daily_nutrition_with_conn without the SELECT of the existing
\* row: every call takes the INSERT branch
update_daily_nutrition_inserting(records, daily, seq, user_id, nutrition_data) ==
    [daily |-> daily \cup {[id |-> seq + 1,
                             user_id |-> user_id,
                             date |-> today,
                             totals |-> nutrition_data,
                             meal_count |-> record_count(records, user_id, today)]},
     seq |-> seq + 1]

\* a variant that looks the day's row up by the date alone, whoever it belongs to
update_daily_nutrition_of_the_day(records, daily, seq, user_id, nutrition_data) ==
    LET actual_meal_count == record_count(records, user_id, today)
        existing == {r \in daily : r.date = today}
    IN  IF existing # {}
        THEN [daily |-> {IF r \in existing
                         THEN [r EXCEPT
                                 !.totals = [n \in Nutrients |-> @[n] + nutrition_data[n]],
                                 !.meal_count = actual_meal_count]
                         ELSE r : r \in daily},
              seq |-> seq]
        ELSE [daily |-> daily \cup {[id |-> seq + 1,
                                     user_id |-> user_id,
                                     date |-> today,
                                     totals |-> nutrition_data,
                                     meal_count |-> actual_meal_count]},
              seq |-> seq + 1]

\* _update_daily_nutrition_with_conn on tables (records, daily, seq): the tables after it
update_daily_nutrition_with_conn(records, daily, seq, user_id, nutrition_data) ==
    LET actual_meal_count == record_count(records, user_id, today)
        existing == {r \in daily : r.user_id = user_id /\ r.date = today}
    IN  IF existing # {}
        THEN [daily |-> {IF r \in existing
                         THEN [r EXCEPT
                                 !.totals = [n \in Nutrients |-> @[n] + nutrition_data[n]],
                                 !.meal_count = actual_meal_count]
                         ELSE r : r \in daily},
              seq |-> seq]
        ELSE [daily |-> daily \cup {[id |-> seq + 1,
                                     user_id |-> user_id,
                                     date |-> today,
                                     totals |-> nutrition_data,
                                     meal_count |-> actual_meal_count]},
              seq |-> seq + 1]

\* the loop of _update_food_preferences_with_conn over the keywords found in the
\* description, from the i-th on; a statement raises at the keyword reached with
\* fail_after = 0 (never if negative), and the except clause ends the loop there
\* without re-raising
RECURSIVE update_food_preferences_with_conn(_, _, _, _, _)
update_food_preferences_with_conn(prefs, user_id, found, i, fail_after) ==
    IF i > Len(found) \/ fail_after = 0 THEN prefs
    ELSE LET keyword == found[i]
             result == {j \in 1..Len(prefs) :
                          prefs[j].user_id = user_id /\ prefs[j].food_item = keyword}
             updated == IF result # {}
                        THEN [j \in 1..Len(prefs) |->
                                IF j \in result
                                THEN [prefs[j] EXCEPT !.frequency = @ + 1]
                                ELSE prefs[j]]
                        ELSE Append(prefs, [user_id |-> user_id,
                                            food_item |-> keyword,
                                            frequency |-> 1])
         IN  update_food_preferences_with_conn(updated, user_id, found, i + 1,
                 IF fail_after > 0 THEN fail_after - 1 ELSE fail_after)

\* where a statement of save_meal_record can raise
FailPoints ==
    {"none", "insert", "commit1", "daily", "pref1", "pref2", "commit2"}

\* the matched keyword at which _update_food_preferences_with_conn raises
pref_fail_after(fail) ==
    CASE fail = "pref1" -> 0
      [] fail = "pref2" -> 1
      [] OTHER -> 0 - 1

\* the row INSERT INTO meal_records adds
meal_record_row(user_id, meal_type, meal_description, analysis, nutrition_data) ==
    [user_id |-> user_id,
     meal_type |-> meal_type,
     meal_description |-> meal_description,
     nutrition_analysis |-> analysis,
     nutrition |-> nutrition_data,
     recorded_at |-> now]

\* a variant of save_meal_record that keeps one row per user, date and meal type:
\* a second record of the same meal replaces the first (INSERT OR REPLACE)
save_meal_record_replacing(user_id, meal_type, meal_description, analysis, nutrition_data, fail) ==
    LET row == meal_record_row(user_id, meal_type, meal_description, analysis,
                               nutrition_data)
        same == {i \in 1..Len(meal_records) :
                    /\ meal_records[i].user_id = user_id
                    /\ meal_records[i].meal_type = meal_type
                    /\ DATE(meal_records[i].recorded_at) = DATE(now)}
        inserted == IF same = {} THEN Append(meal_records, row)
                    ELSE [i \in 1..Len(meal_records) |->
                            IF i \in same THEN row ELSE meal_records[i]]
        daily == update_daily_nutrition_with_conn(inserted, daily_nutrition,
                     daily_nutrition_seq, user_id, nutrition_data)
    IN  [raised |-> fail # "none",
         meal_records |-> IF fail = "none" THEN inserted ELSE meal_records,
         daily_nutrition |-> IF fail = "none" THEN daily.daily ELSE daily_nutrition,
         daily_nutrition_seq |-> IF fail = "none" THEN daily.seq ELSE daily_nutrition_seq,
         food_preferences |-> food_preferences]

\* save_meal_record: whether it raises, and the tables as committed when it returns.
\* The INSERT is committed on its own (commit1) before the aggregate and the
\* preferences are written and committed (commit2); rollback undoes only what
\* is not yet committed.
save_meal_record(user_id, meal_type, meal_description, analysis, nutrition_data, fail) ==
    LET inserted == Append(meal_records,
                        meal_record_row(user_id, meal_type, meal_description,
                                        analysis, nutrition_data))
        daily == update_daily_nutrition_with_conn(inserted, daily_nutrition,
                     daily_nutrition_seq, user_id, nutrition_data)
        prefs == update_food_preferences_with_conn(food_preferences, user_id,
                     text_table[meal_description].keywords, 1, pref_fail_after(fail))
    IN  CASE fail \in {"insert", "commit1"} ->
                [raised |-> TRUE,
                 meal_records |-> meal_records,
                 daily_nutrition |-> daily_nutrition,
                 daily_nutrition_seq |-> daily_nutrition_seq,
                 food_preferences |-> food_preferences]
          [] fail \in {"daily", "commit2"} ->
                [raised |-> TRUE,
                 meal_records |-> inserted,
                 daily_nutrition |-> daily_nutrition,
                 daily_nutrition_seq |-> daily_nutrition_seq,
                 food_preferences |-> food_preferences]
          [] OTHER ->
                [raised |-> FALSE,
                 meal_records |-> inserted,
                 daily_nutrition |-> daily.daily,
                 daily_nutrition_seq |-> daily.seq,
                 food_preferences |-> prefs]

(***************************************************************************)
(* Maintenance                                                             *)
(***************************************************************************)

\* a variant of clean_duplicate_nutrition_records whose DELETE keeps MAX(id)
clean_duplicate_keeping_latest(daily, records) ==
    LET group(r) == {s \in daily : s.user_id = r.user_id /\ s.date = r.date}
        duplicated(r) == Cardinality(group(r)) > 1
        max_id(r) == CHOOSE i \in {s.id : s \in group(r)} :
                        \A s \in group(r) : i >= s.id
    IN  {IF duplicated(r)
         THEN [r EXCEPT !.meal_count = record_count(records, r.user_id, r.date)]
         ELSE r : r \in {s \in daily : ~duplicated(s) \/ s.id = max_id(s)}}

\* a variant of clean_duplicate_nutrition_records whose DELETE removes only the
\* row of MAX(id) of each duplicated group
clean_duplicate_deleting_one(daily, records) ==
    LET group(r) == {s \in daily : s.user_id = r.user_id /\ s.date = r.date}
        duplicated(r) == Cardinality(group(r)) > 1
        max_id(r) == CHOOSE i \in {s.id : s \in group(r)} :
                        \A s \in group(r) : i >= s.id
    IN  {IF duplicated(r)
         THEN [r EXCEPT !.meal_count = record_count(records, r.user_id, r.date)]
         ELSE r : r \in {s \in daily : ~duplicated(s) \/ s.id # max_id(s)}}

\* clean_duplicate_nutrition_records: daily_nutrition after it
clean_duplicate_nutrition_records(daily, records) ==
    LET group(r) == {s \in daily : s.user_id = r.user_id /\ s.date = r.date}
        duplicated(r) == Cardinality(group(r)) > 1
        min_id(r) == CHOOSE i \in {s.id : s \in group(r)} :
                        \A s \in group(r) : i <= s.id
    IN  {IF duplicated(r)
         THEN [r EXCEPT !.meal_count = record_count(records, r.user_id, r.date)]
         ELSE r : r \in {s \in daily : ~duplicated(s) \/ s.id = min_id(s)}}

\* fix_all_users_meal_count: daily_nutrition after it
fix_all_users_meal_count(daily, records) ==
    {IF r.date = today
     THEN [r EXCEPT !.meal_count = record_count(records, r.user_id, today)]
     ELSE r : r \in daily}

(***************************************************************************)
(* Routing of a text message                                               *)
(***************************************************************************)

\* user_states[user_id]['step'] once handle_text_message has made sure of the entry
step_of(user_id) ==
    IF user_id \in DOMAIN user_states THEN user_states[user_id].step ELSE "normal"

\* user_states after "if user_id not in user_states: user_states[user_id] = {'step': 'normal'}"
with_entry(user_id) ==
    IF user_id \in DOMAIN user_states THEN user_states
    ELSE Put(user_states, user_id, normal_state)

\* the handlers of the main menu that only read the store and answer
read_only_routes ==
    {"handle_food_record_request", "handle_welcome", "generate_weekly_report",
     "show_user_profile", "show_instructions", "provide_meal_suggestions",
     "show_daily_progress", "provide_food_consultation"}

\* a variant of the dispatch that looks at the main menu before the user's step
route_commands_first(user_id, message_text) ==
    LET r == text_table[message_text].route
    IN  IF r # "analyze_food_description_with_confirmation" THEN r
        ELSE IF step_of(user_id) = "confirm_meal_record"
             THEN "handle_meal_record_confirmation"
        ELSE IF step_of(user_id) # "normal" THEN "handle_profile_setup_flow"
        ELSE r

\* handle_text_message: the branch that handles message_text for user_id
route(user_id, message_text) ==
    LET r == text_table[message_text].route
    IN  IF r \in {"handle_cancel_request", "restart"} THEN r
        ELSE IF step_of(user_id) = "confirm_meal_record"
             THEN "handle_meal_record_confirmation"
        ELSE IF step_of(user_id) # "normal" THEN "handle_profile_setup_flow"
        ELSE r

(***************************************************************************)
(* Profile wizard                                                          *)
(***************************************************************************)

digits ==
    <<"0", "1", "2", "3", "4", "5", "6", "7", "8", "9">>

is_digit(c) ==
    \E d \in 1..Len(digits) : digits[d] = c

digit_value(c) ==
    (CHOOSE d \in 1..Len(digits) : digits[d] = c) - 1

\* the value of a run of digits
RECURSIVE int_of(_)
int_of(ds) ==
    IF ds = <<>> THEN 0
    ELSE 10 * int_of(SubSeq(ds, 1, Len(ds) - 1)) + digit_value(ds[Len(ds)])

\* re.findall(r'\d+', text)[0]: the first run of digits, <<>> if there is none (IndexError)
first_digits(text) ==
    IF \A i \in 1..Len(text) : ~is_digit(text[i]) THEN <<>>
    ELSE LET start == CHOOSE i \in 1..Len(text) :
                          is_digit(text[i]) /\ \A j \in 1..(i - 1) : ~is_digit(text[j])
             stop == CHOOSE i \in start..Len(text) :
                          /\ \A j \in start..i : is_digit(text[j])
                          /\ (i = Len(text) \/ ~is_digit(text[i + 1]))
         IN  SubSeq(text, start, stop)

\* float(text) on the texts of the model: a run of digits between blanks is its
\* value, any other of these texts raises ValueError
parse_float(text) ==
    LET t == strip(text)
    IN  IF t # <<>> /\ \A i \in 1..Len(t) : is_digit(t[i])
        THEN [ok |-> TRUE, value |-> int_of(t)]
        ELSE [ok |-> FALSE, value |-> 0]

\* the first rule of a rule list whose words hold the text; 0 if none does
RECURSIVE rule_of(_, _, _)
rule_of(rule_list, i, text) ==
    IF i > Len(rule_list) THEN 0
    ELSE IF text \in rule_list[i].words THEN i
    ELSE rule_of(rule_list, i + 1, text)

\* max(5, min(50, 1.20 * bmi + 0.23 * age - 16.2 or 5.4)) in hundredths of a
\* percent, with bmi = weight / (height / 100) ** 2; height # 0
estimated_body_fat(data) ==
    LET bmi_x120 == (120 * data.weight * 10000) \div (data.height * data.height)
        raw == bmi_x120 + 23 * data.age
               - (IF data.gender = gender_rules[1].gender THEN 1620 ELSE 540)
    IN  IF raw < 500 THEN 500 ELSE IF raw > 5000 THEN 5000 ELSE raw

\* the factor of activity_multiplier, in hundredths; 1.2 for an unknown level
activity_multiplier(activity_level) ==
    CASE activity_level = activity_rules[1].activity -> 120
      [] activity_level = activity_rules[2].activity -> 155
      [] activity_level = activity_rules[3].activity -> 190
      [] OTHER -> 120

\* a variant of save_user that writes the collected inputs only and leaves the
\* derived fields as they were (0 in a new row)
user_row_inputs_only(user_id, user_data) ==
    LET old(field) == IF user_id \in DOMAIN users THEN users[user_id][field] ELSE 0
    IN  [user_id |-> user_id,
         name |-> user_data.name,
         age |-> user_data.age,
         gender |-> user_data.gender,
         height |-> user_data.height,
         weight |-> user_data.weight,
         activity_level |-> user_data.activity_level,
         health_goals |-> user_data.health_goals,
         dietary_restrictions |-> user_data.dietary_restrictions,
         body_fat_percentage |-> user_data.body_fat_percentage,
         target_calories |-> old("target_calories"),
         target_carbs |-> old("target_carbs"),
         target_protein |-> old("target_protein"),
         target_fat |-> old("target_fat"),
         bmr |-> old("bmr"),
         tdee |-> old("tdee")]

\* save_user: the row INSERT OR REPLACE writes; bmr in thousandths of a kcal,
\* tdee and the targets in 1/100000; height # 0
user_row(user_id, user_data) ==
    LET bmr == IF user_data.gender = gender_rules[1].gender
               THEN 88362 + 13397 * user_data.weight + 4799 * user_data.height
                    - 5677 * user_data.age
               ELSE 447593 + 9247 * user_data.weight + 3098 * user_data.height
                    - 4330 * user_data.age
        tdee == bmr * activity_multiplier(user_data.activity_level)
    IN  [user_id |-> user_id,
         name |-> user_data.name,
         age |-> user_data.age,
         gender |-> user_data.gender,
         height |-> user_data.height,
         weight |-> user_data.weight,
         activity_level |-> user_data.activity_level,
         health_goals |-> user_data.health_goals,
         dietary_restrictions |-> user_data.dietary_restrictions,
         body_fat_percentage |-> user_data.body_fat_percentage,
         target_calories |-> tdee,
         target_carbs |-> tdee \div 8,
         target_protein |-> tdee \div 20,
         target_fat |-> tdee \div 30,
         bmr |-> bmr,
         tdee |-> tdee]

\* user_states[user_id]['data'][key] = value
set_data(state, key, value) ==
    [state EXCEPT !.data = Put(@, key, value)]

\* a variant of the wizard that asks for the dietary restrictions after any
\* answer, whatever the step
profile_setup_flow_cut_short(user_id, message_text, fail) ==
    [state |-> [user_states[user_id] EXCEPT !.step = "dietary_restrictions"],
     users |-> users,
     replies |-> <<Message(user_id, "reply", "ask_dietary_restrictions")>>]

\* handle_profile_setup_flow: the user's state, the users table and the replies
\* after it; fail says whether the write of save_user raises
profile_setup_flow(user_id, message_text, fail) ==
    LET state == user_states[user_id]
        current_step == state.step
        message_lower == strip(lower(message_text))
        result(new_state, text) ==
            [state |-> new_state, users |-> users,
             replies |-> <<Message(user_id, "reply", text)>>]
        raised(new_state) ==
            [state |-> new_state, users |-> users, replies |-> <<>>]
    IN  CASE current_step = "name" ->
                result([set_data(state, "name", message_text) EXCEPT !.step = "age"],
                       "ask_age")
          [] current_step = "age" ->
                LET found == first_digits(message_text)
                    age == int_of(found)
                IN  IF found = <<>> THEN result(state, "age_invalid")
                    ELSE IF 10 <= age /\ age <= 120
                    THEN result([set_data(state, "age", age) EXCEPT !.step = "gender"],
                                "ask_gender")
                    ELSE result(state, "age_out_of_range")
          [] current_step = "gender" ->
                LET rule == rule_of(gender_rules, 1, message_lower)
                IN  IF rule = 0 THEN result(state, "gender_invalid")
                    ELSE result([set_data(state, "gender", gender_rules[rule].gender)
                                    EXCEPT !.step = "height"], "ask_height")
          [] current_step = "height" ->
                LET height == parse_float(message_text)
                IN  IF height.ok
                    THEN result([set_data(state, "height", height.value)
                                    EXCEPT !.step = "weight"], "ask_weight")
                    ELSE result(state, "height_invalid")
          [] current_step = "weight" ->
                LET weight == parse_float(message_text)
                    stored == [set_data(state, "weight", weight.value)
                                  EXCEPT !.step = "body_fat"]
                IN  IF ~weight.ok THEN result(state, "weight_invalid")
                    ELSE IF state.data.height = 0 THEN raised(stored)
                    ELSE result(stored, "ask_body_fat")
          [] current_step = "body_fat" ->
                IF contains(body_fat_choices.estimate, message_text)
                THEN IF state.data.height = 0 THEN raised(state)
                     ELSE result([set_data(state, "body_fat_percentage",
                                           estimated_body_fat(state.data))
                                     EXCEPT !.step = "activity"], "ask_activity")
                ELSE IF contains(body_fat_choices.measured, message_text)
                THEN result([state EXCEPT !.step = "body_fat_input"], "ask_body_fat_input")
                ELSE IF contains(body_fat_choices.skip, message_text)
                THEN result([set_data(state, "body_fat_percentage", 0)
                                EXCEPT !.step = "activity"], "ask_activity")
                ELSE raised(state)
          [] current_step = "body_fat_input" ->
                LET body_fat == parse_float(message_text)
                IN  IF ~body_fat.ok THEN result(state, "body_fat_invalid")
                    ELSE IF 5 <= body_fat.value /\ body_fat.value <= 50
                    THEN result([set_data(state, "body_fat_percentage",
                                          100 * body_fat.value)
                                    EXCEPT !.step = "activity"], "ask_activity")
                    ELSE result(state, "body_fat_out_of_range")
          [] current_step = "activity" ->
                LET rule == rule_of(activity_rules, 1, message_lower)
                IN  IF rule = 0 THEN result(state, "activity_invalid")
                    ELSE result([set_data(state, "activity_level",
                                          activity_rules[rule].activity)
                                    EXCEPT !.step = "health_goals"], "ask_health_goals")
          [] current_step = "health_goals" ->
                result([set_data(state, "health_goals", message_text)
                           EXCEPT !.step = "dietary_restrictions"],
                       "ask_dietary_restrictions")
          [] current_step = "dietary_restrictions" ->
                LET stored == set_data(state, "dietary_restrictions", message_text)
                IN  IF stored.data.height = 0 \/ fail # "none" THEN raised(stored)
                    ELSE [state |-> [stored EXCEPT !.step = "normal"],
                          users |-> Put(users, user_id, user_row(user_id, stored.data)),
                          replies |-> <<Message(user_id, "reply", "profile_saved")>>]
          [] OTHER -> raised(state)

(***************************************************************************)
(* Extraction pipeline: tables, word lists and regular expressions         *)
(***************************************************************************)

\* extract_nutrition_from_analysis_with_validation: ['杯', 'ml', 'cc', '毫升', '份', '個', '片', '碗', '盤', '條', '根']
portion_keywords ==
    { <<"U676F">>,
      <<"m", "l">>,
      <<"c", "c">>,
      <<"U6BEB", "U5347">>,
      <<"U4EFD">>,
      <<"U500B">>,
      <<"U7247">>,
      <<"U7897">>,
      <<"U76E4">>,
      <<"U689D">>,
      <<"U6839">> }

\* get_reasonable_nutrition_data: ['杯', 'ml', 'cc', '毫升', '公升', 'l', '份', '個', '片', '碗', '盤', '包', '罐', '瓶', '條']
portion_keywords_of_reasonable ==
    { <<"U676F">>,
      <<"m", "l">>,
      <<"c", "c">>,
      <<"U6BEB", "U5347">>,
      <<"U516C", "U5347">>,
      <<"l">>,
      <<"U4EFD">>,
      <<"U500B">>,
      <<"U7247">>,
      <<"U7897">>,
      <<"U76E4">>,
      <<"U5305">>,
      <<"U7F50">>,
      <<"U74F6">>,
      <<"U689D">> }

\* '250ml' and '1杯'
cup_markers ==
    { <<"2", "5", "0", "m", "l">>,
      <<"1", "U676F">> }

\* extract_nutrition_from_analysis_with_validation: ['奶茶', '果汁', '可樂', '汽水']
other_drinks ==
    { <<"U5976", "U8336">>,
      <<"U679C", "U6C41">>,
      <<"U53EF", "U6A02">>,
      <<"U6C7D", "U6C34">> }

\* get_reasonable_nutrition_data: ['汁', '茶', '咖啡', '奶', '水', '飲', '可樂', '汽水']
drink_words ==
    { <<"U6C41">>,
      <<"U8336">>,
      <<"U5496", "U5561">>,
      <<"U5976">>,
      <<"U6C34">>,
      <<"U98F2">>,
      <<"U53EF", "U6A02">>,
      <<"U6C7D", "U6C34">> }

\* '豆漿'
soy_milk ==
    <<"U8C46", "U6F3F">>

\* '咖啡'
coffee ==
    <<"U5496", "U5561">>

\* '拿鐵'
latte ==
    <<"U62FF", "U9435">>

\* '果汁'
juice ==
    <<"U679C", "U6C41">>

\* '水'
water ==
    <<"U6C34">>

\* '大卡'
kcal ==
    <<"U5927", "U5361">>

\* 'g'
gram ==
    <<"g">>

\* '約'
about ==
    <<"U7D04">>

\* '總共'
in_total ==
    <<"U7E3D", "U5171">>

\* '，'
comma ==
    <<"UFF0C">>

\* '、'
enumeration_comma ==
    <<"U3001">>

\* a nutrient dict, from figures in kcal and g; the model keeps every nutrient
\* value in tenths
N(calories, carbs, protein, fat, fiber, sugar) ==
    [calories |-> 10 * calories, carbs |-> 10 * carbs, protein |-> 10 * protein,
     fat |-> 10 * fat, fiber |-> 10 * fiber, sugar |-> 10 * sugar]

\* get_reasonable_nutrition_data: drink_database, per 330 mL, in its order:
\* 豆漿, 咖啡, 拿鐵, 牛奶, 奶茶, 果汁, 可樂, 茶, 水
drink_database ==
    << [keyword |-> <<"U8C46", "U6F3F">>, nutrition |-> N(132, 13, 9, 5, 3, 10)],
       [keyword |-> <<"U5496", "U5561">>, nutrition |-> N(7, 1, 0, 0, 0, 0)],
       [keyword |-> <<"U62FF", "U9435">>, nutrition |-> N(198, 16, 11, 11, 0, 16)],
       [keyword |-> <<"U725B", "U5976">>, nutrition |-> N(198, 16, 11, 11, 0, 16)],
       [keyword |-> <<"U5976", "U8336">>, nutrition |-> N(231, 35, 7, 8, 0, 30)],
       [keyword |-> <<"U679C", "U6C41">>, nutrition |-> N(145, 36, 1, 0, 1, 32)],
       [keyword |-> <<"U53EF", "U6A02">>, nutrition |-> N(139, 35, 0, 0, 0, 35)],
       [keyword |-> <<"U8336">>, nutrition |-> N(3, 1, 0, 0, 0, 0)],
       [keyword |-> <<"U6C34">>, nutrition |-> N(0, 0, 0, 0, 0, 0)] >>

\* get_reasonable_nutrition_data: food_database, per serving, in its order:
\* 白飯, 糙米飯, 雞蛋, 吐司, 全麥吐司, 雞胸肉, 雞腿, 魚, 豆腐, 香蕉, 蘋果, 麵包, 麵, 青菜, 沙拉
food_database ==
    << [keyword |-> <<"U767D", "U98EF">>, nutrition |-> N(280, 62, 6, 1, 1, 0)],
       [keyword |-> <<"U7CD9", "U7C73", "U98EF">>, nutrition |-> N(220, 45, 5, 2, 4, 0)],
       [keyword |-> <<"U96DE", "U86CB">>, nutrition |-> N(70, 1, 6, 5, 0, 1)],
       [keyword |-> <<"U5410", "U53F8">>, nutrition |-> N(80, 15, 3, 1, 2, 2)],
       [keyword |-> <<"U5168", "U9EA5", "U5410", "U53F8">>, nutrition |-> N(80, 15, 3, 1, 2, 2)],
       [keyword |-> <<"U96DE", "U80F8", "U8089">>, nutrition |-> N(165, 0, 31, 4, 0, 0)],
       [keyword |-> <<"U96DE", "U817F">>, nutrition |-> N(250, 0, 26, 16, 0, 0)],
       [keyword |-> <<"U9B5A">>, nutrition |-> N(140, 0, 26, 3, 0, 0)],
       [keyword |-> <<"U8C46", "U8150">>, nutrition |-> N(80, 2, 8, 5, 1, 1)],
       [keyword |-> <<"U9999", "U8549">>, nutrition |-> N(90, 23, 1, 0, 3, 12)],
       [keyword |-> <<"U860B", "U679C">>, nutrition |-> N(80, 21, 0, 0, 4, 16)],
       [keyword |-> <<"U9EB5", "U5305">>, nutrition |-> N(80, 15, 3, 1, 2, 2)],
       [keyword |-> <<"U9EB5">>, nutrition |-> N(220, 44, 8, 1, 2, 2)],
       [keyword |-> <<"U9752", "U83DC">>, nutrition |-> N(25, 5, 3, 0, 3, 2)],
       [keyword |-> <<"U6C99", "U62C9">>, nutrition |-> N(50, 8, 3, 1, 4, 4)] >>

\* smart_estimate_nutrition_from_description: food_nutrition_db, in its order:
\* 牛肉, 漢堡排, 雞蛋, 煎蛋, 麵包, 白飯, 花椰菜, 青菜, 起司, 便當, 漢堡
food_nutrition_db ==
    << [keyword |-> <<"U725B", "U8089">>, nutrition |-> N(250, 0, 26, 17, 0, 0)],
       [keyword |-> <<"U6F22", "U5821", "U6392">>, nutrition |-> N(280, 5, 20, 20, 1, 2)],
       [keyword |-> <<"U96DE", "U86CB">>, nutrition |-> N(70, 1, 6, 5, 0, 1)],
       [keyword |-> <<"U714E", "U86CB">>, nutrition |-> N(90, 1, 6, 7, 0, 1)],
       [keyword |-> <<"U9EB5", "U5305">>, nutrition |-> N(80, 15, 3, 1, 2, 2)],
       [keyword |-> <<"U767D", "U98EF">>, nutrition |-> N(280, 62, 6, 1, 1, 0)],
       [keyword |-> <<"U82B1", "U6930", "U83DC">>, nutrition |-> N(25, 5, 3, 0, 3, 2)],
       [keyword |-> <<"U9752", "U83DC">>, nutrition |-> N(20, 4, 2, 0, 2, 2)],
       [keyword |-> <<"U8D77", "U53F8">>, nutrition |-> N(100, 1, 7, 8, 0, 1)],
       [keyword |-> <<"U4FBF", "U7576">>, nutrition |-> N(650, 80, 25, 20, 5, 8)],
       [keyword |-> <<"U6F22", "U5821">>, nutrition |-> N(540, 45, 25, 31, 3, 5)] >>

\* the regular expressions below are lists of items: a literal, [:：], [:：]?, \s*,
\* 約?, (\d+(?:\.\d+)?) and (\d+)

\* extract_nutrition_from_analysis: calories_patterns
\* r'熱量[:：]\s*約?(\d+(?:\.\d+)?)\s*大卡', r'總熱量[:：]\s*約?(\d+(?:\.\d+)?)\s*大卡',
\* r'(\d+(?:\.\d+)?)\s*大卡'
calories_patterns ==
    << <<[kind |-> "lit", text |-> <<"U71B1", "U91CF">>],
          [kind |-> "colon", text |-> <<>>],
          [kind |-> "ws", text |-> <<>>],
          [kind |-> "about_opt", text |-> <<>>],
          [kind |-> "number", text |-> <<>>],
          [kind |-> "ws", text |-> <<>>],
          [kind |-> "lit", text |-> <<"U5927", "U5361">>]>>,
       <<[kind |-> "lit", text |-> <<"U7E3D", "U71B1", "U91CF">>],
          [kind |-> "colon", text |-> <<>>],
          [kind |-> "ws", text |-> <<>>],
          [kind |-> "about_opt", text |-> <<>>],
          [kind |-> "number", text |-> <<>>],
          [kind |-> "ws", text |-> <<>>],
          [kind |-> "lit", text |-> <<"U5927", "U5361">>]>>,
       <<[kind |-> "number", text |-> <<>>],
          [kind |-> "ws", text |-> <<>>],
          [kind |-> "lit", text |-> <<"U5927", "U5361">>]>> >>

\* extract_nutrition_from_analysis: carbs_patterns
\* r'碳水化合物[:：]\s*約?(\d+(?:\.\d+)?)\s*g', r'碳水[:：]\s*約?(\d+(?:\.\d+)?)\s*g'
carbs_patterns ==
    << <<[kind |-> "lit", text |-> <<"U78B3", "U6C34", "U5316", "U5408", "U7269">>],
          [kind |-> "colon", text |-> <<>>],
          [kind |-> "ws", text |-> <<>>],
          [kind |-> "about_opt", text |-> <<>>],
          [kind |-> "number", text |-> <<>>],
          [kind |-> "ws", text |-> <<>>],
          [kind |-> "lit", text |-> <<"g">>]>>,
       <<[kind |-> "lit", text |-> <<"U78B3", "U6C34">>],
          [kind |-> "colon", text |-> <<>>],
          [kind |-> "ws", text |-> <<>>],
          [kind |-> "about_opt", text |-> <<>>],
          [kind |-> "number", text |-> <<>>],
          [kind |-> "ws", text |-> <<>>],
          [kind |-> "lit", text |-> <<"g">>]>> >>

\* extract_nutrition_from_analysis: protein_patterns
\* r'蛋白質[:：]\s*約?(\d+(?:\.\d+)?)\s*g'
protein_patterns ==
    << <<[kind |-> "lit", text |-> <<"U86CB", "U767D", "U8CEA">>],
          [kind |-> "colon", text |-> <<>>],
          [kind |-> "ws", text |-> <<>>],
          [kind |-> "about_opt", text |-> <<>>],
          [kind |-> "number", text |-> <<>>],
          [kind |-> "ws", text |-> <<>>],
          [kind |-> "lit", text |-> <<"g">>]>> >>

\* extract_nutrition_from_analysis: fat_patterns
\* r'脂肪[:：]\s*約?(\d+(?:\.\d+)?)\s*g'
fat_patterns ==
    << <<[kind |-> "lit", text |-> <<"U8102", "U80AA">>],
          [kind |-> "colon", text |-> <<>>],
          [kind |-> "ws", text |-> <<>>],
          [kind |-> "about_opt", text |-> <<>>],
          [kind |-> "number", text |-> <<>>],
          [kind |-> "ws", text |-> <<>>],
          [kind |-> "lit", text |-> <<"g">>]>> >>

\* force_extract_nutrition_from_text: patterns['calories']
\* r'熱量[:：]?\s*約?(\d+(?:\.\d+)?)\s*大卡', r'約\s*(\d+(?:\.\d+)?)\s*大卡',
\* r'(\d+)\s*大卡', r'總共\s*(\d+)\s*大卡'
force_patterns_calories ==
    << <<[kind |-> "lit", text |-> <<"U71B1", "U91CF">>],
          [kind |-> "colon_opt", text |-> <<>>],
          [kind |-> "ws", text |-> <<>>],
          [kind |-> "about_opt", text |-> <<>>],
          [kind |-> "number", text |-> <<>>],
          [kind |-> "ws", text |-> <<>>],
          [kind |-> "lit", text |-> <<"U5927", "U5361">>]>>,
       <<[kind |-> "lit", text |-> <<"U7D04">>],
          [kind |-> "ws", text |-> <<>>],
          [kind |-> "number", text |-> <<>>],
          [kind |-> "ws", text |-> <<>>],
          [kind |-> "lit", text |-> <<"U5927", "U5361">>]>>,
       <<[kind |-> "integer", text |-> <<>>],
          [kind |-> "ws", text |-> <<>>],
          [kind |-> "lit", text |-> <<"U5927", "U5361">>]>>,
       <<[kind |-> "lit", text |-> <<"U7E3D", "U5171">>],
          [kind |-> "ws", text |-> <<>>],
          [kind |-> "integer", text |-> <<>>],
          [kind |-> "ws", text |-> <<>>],
          [kind |-> "lit", text |-> <<"U5927", "U5361">>]>> >>

\* force_extract_nutrition_from_text: patterns['carbs']
\* r'碳水化合物[:：]?\s*約?(\d+(?:\.\d+)?)\s*g', r'碳水[:：]?\s*約?(\d+(?:\.\d+)?)\s*g',
\* r'碳水\s*(\d+)\s*g'
force_patterns_carbs ==
    << <<[kind |-> "lit", text |-> <<"U78B3", "U6C34", "U5316", "U5408", "U7269">>],
          [kind |-> "colon_opt", text |-> <<>>],
          [kind |-> "ws", text |-> <<>>],
          [kind |-> "about_opt", text |-> <<>>],
          [kind |-> "number", text |-> <<>>],
          [kind |-> "ws", text |-> <<>>],
          [kind |-> "lit", text |-> <<"g">>]>>,
       <<[kind |-> "lit", text |-> <<"U78B3", "U6C34">>],
          [kind |-> "colon_opt", text |-> <<>>],
          [kind |-> "ws", text |-> <<>>],
          [kind |-> "about_opt", text |-> <<>>],
          [kind |-> "number", text |-> <<>>],
          [kind |-> "ws", text |-> <<>>],
          [kind |-> "lit", text |-> <<"g">>]>>,
       <<[kind |-> "lit", text |-> <<"U78B3", "U6C34">>],
          [kind |-> "ws", text |-> <<>>],
          [kind |-> "integer", text |-> <<>>],
          [kind |-> "ws", text |-> <<>>],
          [kind |-> "lit", text |-> <<"g">>]>> >>

\* force_extract_nutrition_from_text: patterns['protein']
\* r'蛋白質[:：]?\s*約?(\d+(?:\.\d+)?)\s*g', r'蛋白質\s*(\d+)\s*g'
force_patterns_protein ==
    << <<[kind |-> "lit", text |-> <<"U86CB", "U767D", "U8CEA">>],
          [kind |-> "colon_opt", text |-> <<>>],
          [kind |-> "ws", text |-> <<>>],
          [kind |-> "about_opt", text |-> <<>>],
          [kind |-> "number", text |-> <<>>],
          [kind |-> "ws", text |-> <<>>],
          [kind |-> "lit", text |-> <<"g">>]>>,
       <<[kind |-> "lit", text |-> <<"U86CB", "U767D", "U8CEA">>],
          [kind |-> "ws", text |-> <<>>],
          [kind |-> "integer", text |-> <<>>],
          [kind |-> "ws", text |-> <<>>],
          [kind |-> "lit", text |-> <<"g">>]>> >>

\* force_extract_nutrition_from_text: patterns['fat']
\* r'脂肪[:：]?\s*約?(\d+(?:\.\d+)?)\s*g', r'脂肪\s*(\d+)\s*g'
force_patterns_fat ==
    << <<[kind |-> "lit", text |-> <<"U8102", "U80AA">>],
          [kind |-> "colon_opt", text |-> <<>>],
          [kind |-> "ws", text |-> <<>>],
          [kind |-> "about_opt", text |-> <<>>],
          [kind |-> "number", text |-> <<>>],
          [kind |-> "ws", text |-> <<>>],
          [kind |-> "lit", text |-> <<"g">>]>>,
       <<[kind |-> "lit", text |-> <<"U8102", "U80AA">>],
          [kind |-> "ws", text |-> <<>>],
          [kind |-> "integer", text |-> <<>>],
          [kind |-> "ws", text |-> <<>>],
          [kind |-> "lit", text |-> <<"g">>]>> >>

\* force_extract_nutrition_from_text: patterns['fiber']
\* r'纖維[:：]?\s*約?(\d+(?:\.\d+)?)\s*g', r'膳食纖維[:：]?\s*約?(\d+(?:\.\d+)?)\s*g',
\* r'纖維\s*(\d+)\s*g'
force_patterns_fiber ==
    << <<[kind |-> "lit", text |-> <<"U7E96", "U7DAD">>],
          [kind |-> "colon_opt", text |-> <<>>],
          [kind |-> "ws", text |-> <<>>],
          [kind |-> "about_opt", text |-> <<>>],
          [kind |-> "number", text |-> <<>>],
          [kind |-> "ws", text |-> <<>>],
          [kind |-> "lit", text |-> <<"g">>]>>,
       <<[kind |-> "lit", text |-> <<"U81B3", "U98DF", "U7E96", "U7DAD">>],
          [kind |-> "colon_opt", text |-> <<>>],
          [kind |-> "ws", text |-> <<>>],
          [kind |-> "about_opt", text |-> <<>>],
          [kind |-> "number", text |-> <<>>],
          [kind |-> "ws", text |-> <<>>],
          [kind |-> "lit", text |-> <<"g">>]>>,
       <<[kind |-> "lit", text |-> <<"U7E96", "U7DAD">>],
          [kind |-> "ws", text |-> <<>>],
          [kind |-> "integer", text |-> <<>>],
          [kind |-> "ws", text |-> <<>>],
          [kind |-> "lit", text |-> <<"g">>]>> >>

(***************************************************************************)
(* Extraction pipeline: re.findall on the patterns above                   *)
(***************************************************************************)

\* the characters \s matches among the characters of the model's texts
regex_space ==
    {" ", "\t", "\n", "\r", "U3000"}

\* [:：]
colons ==
    {":", "UFF1A"}

\* the characters \d matches among the characters of the model's texts
regex_digit ==
    {digits[d] : d \in 1..Len(digits)}

\* the position after the longest run of characters of a class that starts at pos
skip(class, text, pos) ==
    CHOOSE end \in pos..(Len(text) + 1) :
        /\ \A i \in pos..(end - 1) : text[i] \in class
        /\ (end = Len(text) + 1 \/ text[end] \notin class)

\* float of the text matched by (\d+(?:\.\d+)?) at text[from..to - 1], in tenths;
\* the figures of the model's proses have at most one decimal
figure(text, from, to) ==
    IF skip(regex_digit, text, from) < to
    THEN 10 * int_of(SubSeq(text, from, skip(regex_digit, text, from) - 1))
         + digit_value(text[skip(regex_digit, text, from) + 1])
    ELSE 10 * int_of(SubSeq(text, from, to - 1))

\* the match of one item of a pattern at position pos, as re does it (an item
\* takes the longest text it can; for these patterns a shorter one never lets the
\* rest match): no element if the item does not match, else the position after
\* it and the value of the group so far
match_item(item, text, pos, value) ==
    CASE item.kind = "lit" ->
            IF pos + Len(item.text) - 1 <= Len(text)
               /\ SubSeq(text, pos, pos + Len(item.text) - 1) = item.text
            THEN {[pos |-> pos + Len(item.text), value |-> value]}
            ELSE {}
      [] item.kind = "colon" ->
            IF pos <= Len(text) /\ text[pos] \in colons
            THEN {[pos |-> pos + 1, value |-> value]}
            ELSE {}
      [] item.kind = "colon_opt" ->
            IF pos <= Len(text) /\ text[pos] \in colons
            THEN {[pos |-> pos + 1, value |-> value]}
            ELSE {[pos |-> pos, value |-> value]}
      [] item.kind = "ws" ->
            {[pos |-> skip(regex_space, text, pos), value |-> value]}
      [] item.kind = "about_opt" ->
            IF pos <= Len(text) /\ <<text[pos]>> = about
            THEN {[pos |-> pos + 1, value |-> value]}
            ELSE {[pos |-> pos, value |-> value]}
      [] item.kind = "integer" ->
            {[pos |-> end, value |-> 10 * int_of(SubSeq(text, pos, end - 1))] :
                end \in {skip(regex_digit, text, pos)} \ {pos}}
      [] item.kind = "number" ->
            {[pos |-> end, value |-> figure(text, pos, end)] :
                end \in {IF whole_end <= Len(text) /\ text[whole_end] = "."
                            /\ skip(regex_digit, text, whole_end + 1) > whole_end + 1
                         THEN skip(regex_digit, text, whole_end + 1)
                         ELSE whole_end :
                         whole_end \in {skip(regex_digit, text, pos)} \ {pos}}}
      [] OTHER -> {}

\* the match of the items k.. of a pattern at position pos: the value of the
\* group, in a set that is empty if they do not match
RECURSIVE match_at(_, _, _, _, _)
match_at(pattern, k, text, pos, value) ==
    IF k > Len(pattern) THEN {value}
    ELSE UNION {match_at(pattern, k + 1, text, next.pos, next.value) :
                   next \in match_item(pattern[k], text, pos, value)}

\* float(re.search(pattern, text).group(1)), float(re.findall(pattern, text)[0]):
\* the group of the leftmost match, in a set that is empty if there is no match
find_first(pattern, text) ==
    UNION {match_at(pattern, 1, text, first, 0) :
              first \in {pos \in 1..Len(text) :
                           /\ match_at(pattern, 1, text, pos, 0) # {}
                           /\ \A before \in 1..(pos - 1) :
                                 match_at(pattern, 1, text, before, 0) = {}}}

\* extract_value / force_extract_value: the figure of the first pattern of the
\* list that matches, the default if none does
extract_value(patterns_list, text, default) ==
    LET matching == {i \in 1..Len(patterns_list) : find_first(patterns_list[i], text) # {}}
    IN  IF matching = {} THEN default
        ELSE CHOOSE value \in UNION {find_first(patterns_list[i], text) :
                                        i \in {j \in matching : \A l \in matching : j <= l}} :
                 TRUE

\* extract_nutrition_from_analysis, the definition in force (the last of the
\* module): four figures searched in the text, fiber and sugar fixed
extract_nutrition_from_analysis(analysis_text) ==
    [calories |-> extract_value(calories_patterns, analysis_text, 3000),
     carbs |-> extract_value(carbs_patterns, analysis_text, 450),
     protein |-> extract_value(protein_patterns, analysis_text, 150),
     fat |-> extract_value(fat_patterns, analysis_text, 100),
     fiber |-> 50,
     sugar |-> 80]

\* force_extract_nutrition_from_text; re.IGNORECASE only bears on the letter g
force_extract_nutrition_from_text(text) ==
    [calories |-> extract_value(force_patterns_calories, lower(text), 0),
     carbs |-> extract_value(force_patterns_carbs, lower(text), 0),
     protein |-> extract_value(force_patterns_protein, lower(text), 0),
     fat |-> extract_value(force_patterns_fat, lower(text), 0),
     fiber |-> extract_value(force_patterns_fiber, lower(text), 0),
     sugar |-> 50]

(***************************************************************************)
(* Extraction pipeline: the estimators                                     *)
(***************************************************************************)

\* round(numerator / denominator, 0) of Python, ties to even; numerator >= 0
round_div(numerator, denominator) ==
    LET floor == numerator \div denominator
        rest == 2 * (numerator % denominator)
    IN  IF rest > denominator \/ (rest = denominator /\ floor % 2 = 1)
        THEN floor + 1
        ELSE floor

\* all(v <= 0 for v in nutrition_data.values())
all_zero(nutrition_data) ==
    \A n \in DOMAIN nutrition_data : nutrition_data[n] <= 0

\* the first row of a table whose keyword is in the text; 0 if there is none
RECURSIVE first_row(_, _, _)
first_row(table, i, text) ==
    IF i > Len(table) THEN 0
    ELSE IF contains(table[i].keyword, text) THEN i
    ELSE first_row(table, i + 1, text)

\* a variant of get_reasonable_nutrition_data that returns the row of 330 mL
\* whatever the quantity
get_reasonable_nutrition_data_per_330(food_description) ==
    LET food_lower == lower(food_description)
        drink == first_row(drink_database, 1, food_lower)
        food == first_row(food_database, 1, food_lower)
    IN  IF drink # 0 THEN drink_database[drink].nutrition
        ELSE IF food # 0 THEN food_database[food].nutrition
        ELSE IF contains_any(drink_words, food_lower) THEN N(100, 15, 2, 2, 1, 12)
        ELSE N(150, 20, 8, 5, 2, 5)

\* get_reasonable_nutrition_data
get_reasonable_nutrition_data(food_description) ==
    LET food_lower == lower(food_description)
        has_portion == contains_any(portion_keywords_of_reasonable, food_description)
        drink == first_row(drink_database, 1, food_lower)
        food == first_row(food_database, 1, food_lower)
    IN  IF drink # 0
        THEN IF has_portion /\ contains_any(cup_markers, food_description)
             THEN [n \in Nutrients |->
                      round_div(drink_database[drink].nutrition[n] * 250, 330)]
             ELSE drink_database[drink].nutrition
        ELSE IF food # 0 THEN food_database[food].nutrition
        ELSE IF contains_any(drink_words, food_lower) THEN N(100, 15, 2, 2, 1, 12)
        ELSE N(150, 20, 8, 5, 2, 5)

\* a variant of validated without the branches for the drinks and for water
validated_without_drink_checks(nutrition_data, food_description) ==
    IF nutrition_data.calories > 10000
    THEN get_reasonable_nutrition_data(food_description)
    ELSE nutrition_data

\* extract_nutrition_from_analysis_with_validation on the figures nutrition_data
\* found in the analysis
validated(nutrition_data, food_description) ==
    LET food_lower == lower(food_description)
        has_portion == contains_any(portion_keywords, food_description)
        checked == IF nutrition_data.calories > 10000
                   THEN get_reasonable_nutrition_data(food_description)
                   ELSE nutrition_data
    IN  IF contains(soy_milk, food_lower)
        THEN IF ~has_portion
             THEN IF nutrition_data.calories > 1800 THEN N(132, 13, 9, 5, 3, 10)
                  ELSE checked
             ELSE IF contains_any(cup_markers, food_description)
                     /\ nutrition_data.calories > 1500
                  THEN N(100, 10, 7, 4, 2, 8)
                  ELSE checked
        ELSE IF contains(coffee, food_lower) /\ ~contains(latte, food_lower)
        THEN IF ~has_portion /\ nutrition_data.calories > 150 THEN N(7, 1, 0, 0, 0, 0)
             ELSE checked
        ELSE IF contains_any(other_drinks, food_lower)
        THEN IF ~has_portion /\ nutrition_data.calories < 500
             THEN get_reasonable_nutrition_data(food_description)
             ELSE checked
        ELSE IF contains(water, food_lower) /\ ~contains(juice, food_lower)
        THEN N(0, 0, 0, 0, 0, 0)
        ELSE checked

\* extract_nutrition_from_analysis_with_validation
extract_nutrition_from_analysis_with_validation(analysis_text, food_description) ==
    CHOOSE result \in {validated(nutrition_data, food_description) :
                          nutrition_data \in {extract_nutrition_from_analysis(analysis_text)}} :
        TRUE

\* len(food_description.split()): the runs of characters that are no whitespace
word_count(text) ==
    Cardinality({i \in 1..Len(text) :
        text[i] \notin regex_space /\ (i = 1 \/ text[i - 1] \in regex_space)})

\* food_description.count(c) for a single character
count_of(character, text) ==
    Cardinality({i \in 1..Len(text) : <<text[i]>> = character})

\* the rows of food_nutrition_db whose keyword is in the text
matches_found(text) ==
    {i \in 1..Len(food_nutrition_db) : contains(food_nutrition_db[i].keyword, text)}

\* total_nutrition[nutrient] after the loop over the rows i.. of food_nutrition_db
RECURSIVE total_nutrition(_, _, _)
total_nutrition(nutrient, i, text) ==
    IF i > Len(food_nutrition_db) THEN 0
    ELSE (IF contains(food_nutrition_db[i].keyword, text)
          THEN food_nutrition_db[i].nutrition[nutrient] ELSE 0)
         + total_nutrition(nutrient, i + 1, text)

\* smart_estimate_nutrition_from_description
smart_estimate_nutrition_from_description(food_description) ==
    LET complexity_score == word_count(food_description)
                            + count_of(comma, food_description)
                            + count_of(enumeration_comma, food_description)
        base_calories == IF 150 + complexity_score * 50 < 800
                         THEN 150 + complexity_score * 50 ELSE 800
    IN  IF matches_found(lower(food_description)) # {}
        THEN [n \in Nutrients |-> total_nutrition(n, 1, lower(food_description))]
        ELSE [calories |-> 10 * base_calories,
              carbs |-> round_div(base_calories * 4 * 10, 40),
              protein |-> round_div(base_calories * 25 * 10, 400),
              fat |-> round_div(base_calories * 35 * 10, 900),
              fiber |-> IF complexity_score > 2 THEN 10 * complexity_score ELSE 20,
              sugar |-> IF 5 * complexity_score > 30 THEN 5 * complexity_score ELSE 30]

(***************************************************************************)
(* Extraction pipeline: the chain of analyze_food_description_with_confirmation *)
(***************************************************************************)

\* the outcomes of client.chat.completions.create: an exception (an error of the
\* service, a timeout), or an answer
GeneratorOutcomes ==
    {[raised |-> TRUE, content |-> <<>>]}
        \cup {[raised |-> FALSE, content |-> prose] : prose \in Proses}

\* the outcome of a call that raised
GeneratorFailure ==
    [raised |-> TRUE, content |-> <<>>]

\* "系統分析：{food_description}\n\n基於食物資料庫估算營養成分"
estimate_text(food_description) ==
    <<"estimate_of">> \o food_description

\* default_values of analyze_food_description_with_confirmation
default_values ==
    N(200, 25, 15, 8, 3, 5)

\* min_values of show_meal_record_confirmation
min_values ==
    N(50, 5, 3, 2, 1, 1)

\* a variant of with_floors that keeps the values it is given
without_floors(nutrition_data, floors) ==
    nutrition_data

\* "if nutrient not in nutrition_data or nutrition_data[nutrient] <= 0:
\*      nutrition_data[nutrient] = floors[nutrient]" for each required nutrient
with_floors(nutrition_data, floors) ==
    [n \in Nutrients |->
        IF n \notin DOMAIN nutrition_data \/ nutrition_data[n] <= 0 THEN floors[n]
        ELSE nutrition_data[n]]

\* nutrition_data of analyze_food_description_with_confirmation before the final
\* validation; the dict is never None or empty, so emergency_nutrition_fallback
\* is not called
staged_nutrition(food_description, outcome) ==
    IF outcome.raised THEN smart_estimate_nutrition_from_description(food_description)
    ELSE CHOOSE staged \in
            {IF second.calories < 500
             THEN smart_estimate_nutrition_from_description(food_description)
             ELSE second :
                second \in {IF all_zero(first)
                            THEN force_extract_nutrition_from_text(outcome.content)
                            ELSE first :
                               first \in {extract_nutrition_from_analysis_with_validation(
                                              outcome.content, food_description)}}} :
            TRUE

\* what analyze_food_description_with_confirmation and then
\* show_meal_record_confirmation make of a description and the generator's
\* outcome: the analysis text and the nutrient dict stored for the confirmation
analysis_of(food_description, outcome) ==
    CHOOSE analysis \in
        {[analysis_result |-> IF outcome.raised THEN estimate_text(food_description)
                              ELSE outcome.content,
          nutrition_data |->
              with_floors(IF all_zero(final)
                          THEN smart_estimate_nutrition_from_description(food_description)
                          ELSE final,
                          min_values)] :
            final \in {with_floors(staged, default_values) :
                          staged \in {staged_nutrition(food_description, outcome)}}} :
        TRUE

\* analysis_of for every description and outcome of the model, computed once
analysis_table ==
    [food_description \in Descriptions \cup Texts \cup IntentTexts |->
        [outcome \in GeneratorOutcomes |-> analysis_of(food_description, outcome)]]

(***************************************************************************)
(* Inputs                                                                  *)
(***************************************************************************)

\* the texts sent as answers to the wizard's questions
WizardAnswers ==
    {MsgNumber, MsgOne, MsgSkipBodyFat}

\* the generator outcomes tried for a text of the conversation: an answer for the
\* meal, an exception for another text; the wizard's answers are sent to the
\* wizard or to a pending confirmation only, never as a description
GeneratorOutcomesOf(food_description) ==
    {outcome \in GeneratorOutcomes :
        /\ food_description \notin WizardAnswers
        /\ IF food_description = MsgLunch
           THEN ~outcome.raised /\ outcome.content = ProseMeal
           ELSE outcome.raised}

(***************************************************************************)
(* Handlers of a text message                                              *)
(***************************************************************************)

\* a variant of handle_cancel_request that only resets the step and keeps the
\* wizard's data or the pending confirmation in the user's state
HandleCancelRequestKeepingData(user_id, message_text) ==
    /\ route(user_id, message_text) = "handle_cancel_request"
    /\ user_states' = IF user_id \in DOMAIN user_states
                      THEN [user_states EXCEPT ![user_id].step = "normal"]
                      ELSE user_states
    /\ replies' = <<Message(user_id, "reply", "cancel_text")>>
    /\ UNCHANGED <<store, clock, calls>>

\* handle_cancel_request
HandleCancelRequest(user_id, message_text) ==
    /\ route(user_id, message_text) = "handle_cancel_request"
    /\ user_states' = IF user_id \in DOMAIN user_states
                      THEN [user_states EXCEPT ![user_id] = normal_state]
                      ELSE user_states
    /\ replies' = <<Message(user_id, "reply", "cancel_text")>>
    /\ UNCHANGED <<store, clock, calls>>

\* handle_text_message, the restart keywords
HandleRestart(user_id, message_text) ==
    /\ route(user_id, message_text) = "restart"
    /\ user_states' = Put(user_states, user_id, normal_state)
    /\ replies' = <<Message(user_id, "reply", "restart_text")>>
    /\ UNCHANGED <<store, clock, calls>>

\* handle_meal_record_confirmation, message "✅ 正確，請記錄"
ConfirmMealRecord(user_id, message_text, fail) ==
    /\ route(user_id, message_text) = "handle_meal_record_confirmation"
    /\ message_text = TextConfirm
    /\ Len(meal_records) < MaxRecords
    /\ LET confirm_data == user_states[user_id].confirm_data
           validated_nutrition == [n \in Nutrients |-> confirm_data.nutrition_data[n]]
           saved == save_meal_record(user_id, confirm_data.meal_type,
                        confirm_data.food_description, confirm_data.analysis_result,
                        validated_nutrition, fail)
       IN  /\ meal_records' = saved.meal_records
           /\ daily_nutrition' = saved.daily_nutrition
           /\ daily_nutrition_seq' = saved.daily_nutrition_seq
           /\ food_preferences' = saved.food_preferences
           /\ user_states' = [user_states EXCEPT ![user_id] = normal_state]
           /\ replies' = <<Message(user_id, "reply",
                              IF saved.raised THEN "error_message" ELSE "success_text")>>
    /\ UNCHANGED <<users, clock, calls>>

\* a variant of the reject branch that only resets the step and keeps the
\* pending confirmation in the user's state
RejectMealRecordKeepingPending(user_id, message_text) ==
    /\ route(user_id, message_text) = "handle_meal_record_confirmation"
    /\ message_text = TextReject
    /\ user_states' = [user_states EXCEPT ![user_id].step = "normal"]
    /\ replies' = <<Message(user_id, "reply", "retry_text")>>
    /\ UNCHANGED <<store, clock, calls>>

\* handle_meal_record_confirmation, message "❌ 錯誤，重新輸入"
RejectMealRecord(user_id, message_text) ==
    /\ route(user_id, message_text) = "handle_meal_record_confirmation"
    /\ message_text = TextReject
    /\ user_states' = [user_states EXCEPT ![user_id] = normal_state]
    /\ replies' = <<Message(user_id, "reply", "retry_text")>>
    /\ UNCHANGED <<store, clock, calls>>

\* a variant of the reminder branch that gives the pending confirmation up
RemindChoiceDroppingPending(user_id, message_text) ==
    /\ route(user_id, message_text) = "handle_meal_record_confirmation"
    /\ message_text \notin {TextConfirm, TextReject}
    /\ user_states' = [user_states EXCEPT ![user_id] = normal_state]
    /\ replies' = <<Message(user_id, "reply", "reminder_text")>>
    /\ UNCHANGED <<store, clock, calls>>

\* handle_meal_record_confirmation, any other message
RemindChoice(user_id, message_text) ==
    /\ route(user_id, message_text) = "handle_meal_record_confirmation"
    /\ message_text \notin {TextConfirm, TextReject}
    /\ replies' = <<Message(user_id, "reply", "reminder_text")>>
    /\ UNCHANGED <<user_states, store, clock, calls>>

\* the answers tried at a step of the wizard: a meal where the wizard stores the
\* text as it is, any text but "1" (a height of 1 cm, a weight of 1 kg) where it
\* stores a number without a range check, any text at the other steps
TextsAt(step) ==
    IF step \in {"name", "health_goals", "dietary_restrictions"} THEN {MsgLunch}
    ELSE IF step \in {"height", "weight"} THEN Texts \ {MsgOne}
    ELSE Texts

\* handle_profile_setup_flow
HandleProfileSetupFlow(user_id, message_text, fail) ==
    /\ route(user_id, message_text) = "handle_profile_setup_flow"
    /\ message_text \in TextsAt(step_of(user_id))
    /\ LET done == profile_setup_flow(user_id, message_text, fail)
       IN  /\ user_states' = [user_states EXCEPT ![user_id] = done.state]
           /\ users' = done.users
           /\ replies' = done.replies
    /\ UNCHANGED <<ledger, clock, calls>>

\* start_profile_setup
StartProfileSetup(user_id, message_text) ==
    /\ route(user_id, message_text) = "start_profile_setup"
    /\ user_states' = Put(user_states, user_id, [step |-> "name", data |-> Empty])
    /\ replies' = <<Message(user_id, "reply", "ask_name")>>
    /\ UNCHANGED <<store, clock, calls>>

\* the handlers of the main menu that write nothing
HandleReadOnly(user_id, message_text) ==
    /\ route(user_id, message_text) \in read_only_routes
    /\ user_states' = with_entry(user_id)
    /\ replies' = <<Message(user_id, "reply", route(user_id, message_text))>>
    /\ UNCHANGED <<store, clock, calls>>

\* a variant of the analysis that saves the record at once and asks for no
\* confirmation, as analyze_food_description does
AnalyzeFoodDescription(user_id, food_description, outcome) ==
    /\ route(user_id, food_description) = "analyze_food_description_with_confirmation"
    /\ Len(meal_records) < MaxRecords
    /\ LET saved == save_meal_record(user_id, text_table[food_description].meal_type,
                        food_description,
                        analysis_table[food_description][outcome].analysis_result,
                        analysis_table[food_description][outcome].nutrition_data,
                        "none")
       IN  /\ meal_records' = saved.meal_records
           /\ daily_nutrition' = saved.daily_nutrition
           /\ daily_nutrition_seq' = saved.daily_nutrition_seq
           /\ food_preferences' = saved.food_preferences
    /\ user_states' = with_entry(user_id)
    /\ replies' = <<Message(user_id, "reply", "analysis_result")>>
    /\ UNCHANGED <<users, clock, calls>>

\* a variant of the analysis that gives up when the generator's call raises: it
\* pushes the error message and asks for no confirmation
AnalyzeFoodDescriptionOrAbort(user_id, food_description, outcome) ==
    /\ route(user_id, food_description) = "analyze_food_description_with_confirmation"
    /\ user_states' =
          IF outcome.raised THEN with_entry(user_id)
          ELSE Put(user_states, user_id,
                   [step |-> "confirm_meal_record",
                    confirm_data |->
                        [meal_type |-> text_table[food_description].meal_type,
                         food_description |-> food_description,
                         analysis_result |->
                             analysis_table[food_description][outcome].analysis_result,
                         nutrition_data |->
                             analysis_table[food_description][outcome].nutrition_data]])
    /\ replies' = <<Message(user_id, "reply", "analyzing"),
                    Message(user_id, "push",
                            IF outcome.raised THEN "error_message"
                            ELSE "confirmation_display")>>
    /\ UNCHANGED <<store, clock, calls>>

\* analyze_food_description_with_confirmation and show_meal_record_confirmation
AnalyzeFoodDescriptionWithConfirmation(user_id, food_description, outcome) ==
    /\ route(user_id, food_description) = "analyze_food_description_with_confirmation"
    /\ user_states' = Put(user_states, user_id,
           [step |-> "confirm_meal_record",
            confirm_data |-> [meal_type |-> text_table[food_description].meal_type,
                              food_description |-> food_description,
                              analysis_result |->
                                  analysis_table[food_description][outcome].analysis_result,
                              nutrition_data |->
                                  analysis_table[food_description][outcome].nutrition_data]])
    /\ replies' = <<Message(user_id, "reply", "analyzing"),
                    Message(user_id, "push", "confirmation_display")>>
    /\ UNCHANGED <<store, clock, calls>>

\* handle_text_message for one message of one user
HandleTextMessage(user_id, message_text) ==
    \/ HandleCancelRequest(user_id, message_text)
    \/ HandleRestart(user_id, message_text)
    \/ \E fail \in FailPoints : ConfirmMealRecord(user_id, message_text, fail)
    \/ RejectMealRecord(user_id, message_text)
    \/ RemindChoice(user_id, message_text)
    \/ \E fail \in {"none", "insert"} :
          HandleProfileSetupFlow(user_id, message_text, fail)
    \/ StartProfileSetup(user_id, message_text)
    \/ HandleReadOnly(user_id, message_text)
    \/ \E outcome \in GeneratorOutcomesOf(message_text) :
          AnalyzeFoodDescriptionWithConfirmation(user_id, message_text, outcome)

(***************************************************************************)
(* The process and the clock                                               *)
(***************************************************************************)

\* a start of the process: user_states = {}, init_db, startup_database_maintenance;
\* each of the two maintenance functions rolls back and goes on when it fails
Startup(clean_fails, fix_fails) ==
    /\ user_states' = Empty
    /\ LET cleaned == IF clean_fails THEN daily_nutrition
                      ELSE clean_duplicate_nutrition_records(daily_nutrition, meal_records)
       IN  daily_nutrition' = IF fix_fails THEN cleaned
                              ELSE fix_all_users_meal_count(cleaned, meal_records)
    /\ replies' = <<>>
    /\ analyses' = Empty
    /\ confirmations' = Empty
    /\ UNCHANGED <<users, meal_records, daily_nutrition_seq, food_preferences, clock>>

\* time passes
Tick(ticks) ==
    /\ now + ticks <= MaxTick
    /\ now' = now + ticks
    /\ replies' = <<>>
    /\ UNCHANGED <<user_states, store, tz, calls>>

(***************************************************************************)
(* Specifications                                                          *)
(***************************************************************************)

Init ==
    /\ user_states = Empty
    /\ users = Empty
    /\ meal_records = <<>>
    /\ daily_nutrition = {}
    /\ daily_nutrition_seq = 0
    /\ food_preferences = <<>>
    /\ now = 0
    /\ tz = 0
    /\ replies = <<>>
    /\ analyses = Empty
    /\ confirmations = Empty

\* one user and every handler: the conversation with the profile wizard
Next ==
    \/ \E message_text \in Texts : HandleTextMessage("U1", message_text)
    \/ \E clean_fails \in BOOLEAN, fix_fails \in BOOLEAN : Startup(clean_fails, fix_fails)

Spec ==
    Init /\ [][Next]_vars

\* the texts of the users who only record meals
LedgerTexts ==
    {MsgCancel, TextConfirm, MsgLunch}

\* handle_text_message for these texts: the other branches are never taken
HandleLedgerMessage(user_id, message_text) ==
    \/ HandleCancelRequest(user_id, message_text)
    \/ \E fail \in FailPoints : ConfirmMealRecord(user_id, message_text, fail)
    \/ RemindChoice(user_id, message_text)
    \/ \E outcome \in GeneratorOutcomesOf(message_text) :
          AnalyzeFoodDescriptionWithConfirmation(user_id, message_text, outcome)

\* two users, two days and the ledger
LedgerNext ==
    \/ \E user_id \in Users, message_text \in LedgerTexts :
          HandleLedgerMessage(user_id, message_text)
    \/ Tick(TicksPerDay)

LedgerSpec ==
    Init /\ [][LedgerNext]_vars


(***************************************************************************)
(* Maintenance of a database left by an earlier deployment                 *)
(***************************************************************************)

\* a legacy meal_records table holds at most this many rows
MaxLegacyRecords ==
    4

\* ids of the rows of a legacy daily_nutrition table
LegacyIds ==
    {1, 2, 3}

\* meal_count values found in a legacy daily_nutrition table
LegacyMealCounts ==
    {2, 3}

\* the calendar dates up to the day of Init
LegacyDates ==
    0..1

\* the nutrients of a legacy row
legacy_nutrition ==
    [n \in Nutrients |-> 1]

\* count rows of meal_records for (user_id, date), recorded at the first tick of the date
legacy_records(user_id, date, count) ==
    [i \in 1..count |->
        [user_id |-> user_id,
         meal_type |-> text_table[MsgLunch].meal_type,
         meal_description |-> MsgLunch,
         nutrition_analysis |-> ProseMeal,
         nutrition |-> legacy_nutrition,
         recorded_at |-> date * TicksPerDay]]

\* the meal_records tables of a legacy database: for each date and user, in
\* order of time, some number of rows
LegacyMealRecords ==
    {legacy_records("U1", 0, c[1]) \o legacy_records("U2", 0, c[2])
        \o legacy_records("U1", 1, c[3]) \o legacy_records("U2", 1, c[4]) :
     c \in {d \in [1..4 -> 0..MaxLegacyRecords] :
               d[1] + d[2] + d[3] + d[4] <= MaxLegacyRecords}}

\* the daily_nutrition tables of a legacy database, created before the table had
\* UNIQUE(user_id, date): any rows, ids apart
LegacyDailyNutrition ==
    {{[id |-> i, user_id |-> f[i].user_id, date |-> f[i].date,
       totals |-> legacy_nutrition, meal_count |-> f[i].meal_count] : i \in ids} :
     ids \in SUBSET LegacyIds,
     f \in [LegacyIds -> [user_id : Users, date : LegacyDates,
                          meal_count : LegacyMealCounts]]}

\* the process is about to start on a legacy database, on the second day
LegacyInit ==
    /\ user_states = Empty
    /\ users = Empty
    /\ meal_records \in LegacyMealRecords
    /\ daily_nutrition \in LegacyDailyNutrition
    /\ daily_nutrition_seq = 3
    /\ food_preferences = <<>>
    /\ now = TicksPerDay
    /\ tz = 0
    /\ replies = <<>>
    /\ analyses = Empty
    /\ confirmations = Empty

\* one call of clean_duplicate_nutrition_records; it rolls back when it fails
CleanDuplicateNutritionRecords(fails) ==
    /\ daily_nutrition' = IF fails THEN daily_nutrition
                          ELSE clean_duplicate_nutrition_records(daily_nutrition,
                                                                 meal_records)
    /\ replies' = <<>>
    /\ UNCHANGED <<user_states, users, meal_records, daily_nutrition_seq,
                   food_preferences, clock, calls>>

\* the maintenance functions and the clock
MaintenanceNext ==
    \/ \E fails \in BOOLEAN : CleanDuplicateNutritionRecords(fails)
    \/ \E clean_fails \in BOOLEAN, fix_fails \in BOOLEAN : Startup(clean_fails, fix_fails)
    \/ Tick(1)

MaintenanceSpec ==
    LegacyInit /\ [][MaintenanceNext]_vars

(***************************************************************************)
(* The extraction pipeline on every description and generator outcome      *)
(***************************************************************************)

\* two users describe what they ate and reject the confirmation
PipelineNext ==
    \/ \E user_id \in Users, food_description \in Descriptions,
             outcome \in GeneratorOutcomes :
          AnalyzeFoodDescriptionWithConfirmation(user_id, food_description, outcome)
    \/ \E user_id \in Users : RejectMealRecord(user_id, TextReject)

PipelineSpec ==
    Init /\ [][PipelineNext]_vars

(***************************************************************************)
(* The intent of a text that is no keyword and no command                  *)
(***************************************************************************)

\* handle_text_message for the texts of IntentTexts: the branches of the
\* keywords, of the wizard and of the confirm are never taken
HandleIntentMessage(user_id, message_text) ==
    \/ HandleReadOnly(user_id, message_text)
    \/ \E outcome \in GeneratorOutcomes :
          AnalyzeFoodDescriptionWithConfirmation(user_id, message_text, outcome)
    \/ RemindChoice(user_id, message_text)

\* two users send texts of IntentTexts and reject the confirmations
IntentNext ==
    \/ \E user_id \in Users, message_text \in IntentTexts :
          HandleIntentMessage(user_id, message_text)
    \/ \E user_id \in Users : RejectMealRecord(user_id, TextReject)

IntentSpec ==
    Init /\ [][IntentNext]_vars
(***************************************************************************)
(* The record flow, statement by statement                                 *)
(***************************************************************************)

\* del d[k]
Del(d, k) ==
    [x \in (DOMAIN d) \ {k} |-> d[x]]

\* what becomes of the push of the confirmation: it is delivered; it raises and
\* the push of the except branch is delivered; both raise
PushOutcomes ==
    {"delivered", "prompt_raises", "both_raise"}

\* the texts of the record flow up to the user's answer to the prompt, a restart
\* and the start of the wizard
DeliveryTexts ==
    {MsgLunch, TextReject, MsgCancel, MsgReset, main_commands.start_profile_setup}

\* the generator's outcomes followed in the record flow: the call raises, or it
\* answers the prose of a meal
DeliveryOutcomes ==
    {GeneratorFailure, [raised |-> FALSE, content |-> ProseMeal]}

\* a variant of the first statements that acknowledges nothing before the
\* generator is called
BeginAnalysisSilently(user_id, food_description, reply_raises) ==
    /\ route(user_id, food_description) = "analyze_food_description_with_confirmation"
    /\ user_id \notin DOMAIN analyses
    /\ user_states' = with_entry(user_id)
    /\ replies' = <<>>
    /\ analyses' = Put(analyses, user_id,
           [pc |-> "acknowledged",
            food_description |-> food_description,
            meal_type |-> text_table[food_description].meal_type,
            analysis_result |-> <<>>,
            nutrition_data |-> <<>>,
            sent |-> <<>>])
    /\ UNCHANGED <<store, clock, confirmations>>

\* analyze_food_description_with_confirmation up to the generator's call: the
\* acknowledgement is replied and the locals are initialised; a reply that
\* raises ends the call in the except branch, which pushes the error message.
\* One call per user is followed at a time.
BeginAnalysis(user_id, food_description, reply_raises) ==
    /\ route(user_id, food_description) = "analyze_food_description_with_confirmation"
    /\ user_id \notin DOMAIN analyses
    /\ user_states' = with_entry(user_id)
    /\ IF reply_raises
       THEN /\ replies' = <<Message(user_id, "push", "error_message")>>
            /\ analyses' = analyses
       ELSE /\ replies' = <<Message(user_id, "reply", "analyzing")>>
            /\ analyses' = Put(analyses, user_id,
                   [pc |-> "acknowledged",
                    food_description |-> food_description,
                    meal_type |-> text_table[food_description].meal_type,
                    analysis_result |-> <<>>,
                    nutrition_data |-> <<>>,
                    sent |-> <<Message(user_id, "reply", "analyzing")>>])
    /\ UNCHANGED <<store, clock, confirmations>>

\* a variant of the generator's call that stores the pending entry as soon as
\* the nutrients are known
CallGeneratorStoringPending(user_id, outcome) ==
    /\ user_id \in DOMAIN analyses
    /\ analyses[user_id].pc = "acknowledged"
    /\ analyses' = [analyses EXCEPT
           ![user_id].pc = "extracted",
           ![user_id].analysis_result =
               analysis_table[analyses[user_id].food_description][outcome].analysis_result,
           ![user_id].nutrition_data =
               analysis_table[analyses[user_id].food_description][outcome].nutrition_data]
    /\ user_states' = Put(user_states, user_id,
           [step |-> "confirm_meal_record",
            confirm_data |->
                [meal_type |-> analyses[user_id].meal_type,
                 food_description |-> analyses[user_id].food_description,
                 analysis_result |->
                     analysis_table[analyses[user_id].food_description][outcome].analysis_result,
                 nutrition_data |->
                     analysis_table[analyses[user_id].food_description][outcome].nutrition_data]])
    /\ replies' = <<>>
    /\ UNCHANGED <<store, clock, confirmations>>

\* the generator's call and the stages that give nutrition_data, floors included
CallGenerator(user_id, outcome) ==
    /\ user_id \in DOMAIN analyses
    /\ analyses[user_id].pc = "acknowledged"
    /\ analyses' = [analyses EXCEPT
           ![user_id].pc = "extracted",
           ![user_id].analysis_result =
               analysis_table[analyses[user_id].food_description][outcome].analysis_result,
           ![user_id].nutrition_data =
               analysis_table[analyses[user_id].food_description][outcome].nutrition_data]
    /\ replies' = <<>>
    /\ UNCHANGED <<user_states, store, clock, confirmations>>

\* show_meal_record_confirmation: the pending entry is stored, then the prompt is
\* pushed; a push that raises is caught by the caller's except branch, which
\* pushes the error message
ShowMealRecordConfirmation(user_id, push_outcome) ==
    /\ user_id \in DOMAIN analyses
    /\ analyses[user_id].pc = "extracted"
    /\ user_states' = Put(user_states, user_id,
           [step |-> "confirm_meal_record",
            confirm_data |-> [meal_type |-> analyses[user_id].meal_type,
                              food_description |-> analyses[user_id].food_description,
                              analysis_result |-> analyses[user_id].analysis_result,
                              nutrition_data |-> analyses[user_id].nutrition_data]])
    /\ replies' = CASE push_outcome = "delivered" ->
                          <<Message(user_id, "push", "confirmation_display")>>
                    [] push_outcome = "prompt_raises" ->
                          <<Message(user_id, "push", "error_message")>>
                    [] OTHER -> <<>>
    /\ analyses' = Del(analyses, user_id)
    /\ UNCHANGED <<store, clock, confirmations>>

\* handle_text_message for these texts: the other branches are never taken
HandleDeliveryMessage(user_id, message_text) ==
    \/ HandleCancelRequest(user_id, message_text)
    \/ HandleRestart(user_id, message_text)
    \/ RejectMealRecord(user_id, message_text)
    \/ RemindChoice(user_id, message_text)
    \/ StartProfileSetup(user_id, message_text)
    \/ HandleProfileSetupFlow(user_id, message_text, "none")
    \/ \E reply_raises \in BOOLEAN : BeginAnalysis(user_id, message_text, reply_raises)

\* the record flow of two users, the calls of the analysis interleaved
DeliveryNext ==
    \/ \E user_id \in Users, message_text \in DeliveryTexts :
          HandleDeliveryMessage(user_id, message_text)
    \/ \E user_id \in Users, outcome \in DeliveryOutcomes : CallGenerator(user_id, outcome)
    \/ \E user_id \in Users, push_outcome \in PushOutcomes :
          ShowMealRecordConfirmation(user_id, push_outcome)

DeliverySpec ==
    Init /\ [][DeliveryNext]_vars

(***************************************************************************)
(* The ledger when the process's local time is ahead of UTC                *)
(***************************************************************************)

\* the process starts in a time zone at or ahead of UTC by less than a day
ZoneInit ==
    /\ user_states = Empty
    /\ users = Empty
    /\ meal_records = <<>>
    /\ daily_nutrition = {}
    /\ daily_nutrition_seq = 0
    /\ food_preferences = <<>>
    /\ now = 0
    /\ tz \in 0..(TicksPerDay - 1)
    /\ replies = <<>>
    /\ analyses = Empty
    /\ confirmations = Empty

\* one user records meals while the clock advances tick by tick
ZoneNext ==
    \/ \E message_text \in LedgerTexts : HandleLedgerMessage("U1", message_text)
    \/ Tick(1)

ZoneSpec ==
    ZoneInit /\ [][ZoneNext]_vars

(***************************************************************************)
(* Confirms handled at the same time                                       *)
(***************************************************************************)

Calls ==
    1..MaxCalls

\* the texts of a user who records a meal and confirms it
ConfirmTexts ==
    {MsgLunch, TextConfirm}

\* handle_text_message and the first statement of handle_meal_record_confirmation
\* for the confirm text: the step is tested and the pending entry is read
BeginConfirm(user_id, message_text) ==
    /\ route(user_id, message_text) = "handle_meal_record_confirmation"
    /\ message_text = TextConfirm
    /\ DOMAIN confirmations # Calls
    /\ confirmations' = Put(confirmations,
           CHOOSE call \in Calls \ DOMAIN confirmations :
               \A other \in Calls \ DOMAIN confirmations : call <= other,
           [user_id |-> user_id, confirm_data |-> user_states[user_id].confirm_data])
    /\ replies' = <<>>
    /\ UNCHANGED <<user_states, store, clock, analyses>>

\* a variant of the rest of the call that leaves the user's state as it is
FinishConfirmKeepingPending(call, fail) ==
    /\ call \in DOMAIN confirmations
    /\ Len(meal_records) < MaxRecords
    /\ LET user_id == confirmations[call].user_id
           confirm_data == confirmations[call].confirm_data
           saved == save_meal_record(user_id, confirm_data.meal_type,
                        confirm_data.food_description, confirm_data.analysis_result,
                        [n \in Nutrients |-> confirm_data.nutrition_data[n]], fail)
       IN  /\ meal_records' = saved.meal_records
           /\ daily_nutrition' = saved.daily_nutrition
           /\ daily_nutrition_seq' = saved.daily_nutrition_seq
           /\ food_preferences' = saved.food_preferences
           /\ user_states' = user_states
           /\ replies' = <<Message(user_id, "reply",
                              IF saved.raised THEN "error_message" ELSE "success_text")>>
    /\ confirmations' = Del(confirmations, call)
    /\ UNCHANGED <<users, clock, analyses>>

\* the rest of the call: save_meal_record on the entry read, the state reset,
\* the reply
FinishConfirm(call, fail) ==
    /\ call \in DOMAIN confirmations
    /\ Len(meal_records) < MaxRecords
    /\ LET user_id == confirmations[call].user_id
           confirm_data == confirmations[call].confirm_data
           saved == save_meal_record(user_id, confirm_data.meal_type,
                        confirm_data.food_description, confirm_data.analysis_result,
                        [n \in Nutrients |-> confirm_data.nutrition_data[n]], fail)
       IN  /\ meal_records' = saved.meal_records
           /\ daily_nutrition' = saved.daily_nutrition
           /\ daily_nutrition_seq' = saved.daily_nutrition_seq
           /\ food_preferences' = saved.food_preferences
           /\ user_states' = Put(user_states, user_id, normal_state)
           /\ replies' = <<Message(user_id, "reply",
                              IF saved.raised THEN "error_message" ELSE "success_text")>>
    /\ confirmations' = Del(confirmations, call)
    /\ UNCHANGED <<users, clock, analyses>>

\* handle_text_message for these texts, up to the read of the pending entry
HandleConfirmTexts(user_id, message_text) ==
    \/ BeginConfirm(user_id, message_text)
    \/ RemindChoice(user_id, message_text)
    \/ \E outcome \in GeneratorOutcomesOf(message_text) :
          AnalyzeFoodDescriptionWithConfirmation(user_id, message_text, outcome)

\* one user records meals; the calls of the confirmation handler interleave
ConcurrentNext ==
    \/ \E message_text \in ConfirmTexts : HandleConfirmTexts("U1", message_text)
    \/ \E call \in Calls, fail \in {"none", "daily"} : FinishConfirm(call, fail)

ConcurrentSpec ==
    Init /\ [][ConcurrentNext]_vars


(***************************************************************************)
(* Two users side by side                                                  *)
(***************************************************************************)

\* the answers of a user who went through the wizard: name, 25, the first
\* gender, 25, 25, no body fat, the first activity, goals, restrictions
AnsweredData ==
    [name |-> MsgLunch,
     age |-> 25,
     gender |-> gender_rules[1].gender,
     height |-> 25,
     weight |-> 25,
     body_fat_percentage |-> 0,
     activity_level |-> activity_rules[1].activity,
     health_goals |-> MsgLunch,
     dietary_restrictions |-> MsgLunch]

\* the texts of the second user: a meal, its confirmation, the cancel and
\* the start of the wizard (whose name step takes the meal text as the name)
NeighbourTexts ==
    {MsgLunch, TextConfirm, MsgCancel, main_commands.start_profile_setup}

\* the process before or after the second user saved a profile
IsolationInit ==
    /\ user_states = Empty
    /\ \E saved \in {{}, {"U2"}} :
          users = [user_id \in saved |-> user_row(user_id, AnsweredData)]
    /\ meal_records = <<>>
    /\ daily_nutrition = {}
    /\ daily_nutrition_seq = 0
    /\ food_preferences = <<>>
    /\ now = 0
    /\ tz = 0
    /\ replies = <<>>
    /\ analyses = Empty
    /\ confirmations = Empty

\* the texts of the first user: those of the second and the answers that
\* take the wizard to its end
WizardTexts ==
    NeighbourTexts \cup {MsgNumber, MsgOne, MsgSkipBodyFat}

\* handle_text_message for these texts: the other branches are never taken;
\* no write fails
HandleIsolationMessage(user_id, message_text) ==
    \/ HandleCancelRequest(user_id, message_text)
    \/ ConfirmMealRecord(user_id, message_text, "none")
    \/ RemindChoice(user_id, message_text)
    \/ HandleProfileSetupFlow(user_id, message_text, "none")
    \/ StartProfileSetup(user_id, message_text)
    \/ \E outcome \in GeneratorOutcomesOf(message_text) :
          AnalyzeFoodDescriptionWithConfirmation(user_id, message_text, outcome)

\* the messages of the two users in any order
IsolationNext ==
    \/ \E message_text \in WizardTexts : HandleIsolationMessage("U1", message_text)
    \/ \E message_text \in NeighbourTexts : HandleIsolationMessage("U2", message_text)

IsolationSpec ==
    IsolationInit /\ [][IsolationNext]_vars

(***************************************************************************)
(* The wizard answered with inputs that pass its validation                *)
(***************************************************************************)

\* the input passes the validation of the step it answers: the conditions under
\* which handle_profile_setup_flow does not re-prompt
passes_validation(state, message_text) ==
    LET message_lower == strip(lower(message_text))
    IN  CASE state.step \in {"name", "health_goals", "dietary_restrictions"} -> TRUE
          [] state.step = "age" ->
                /\ first_digits(message_text) # <<>>
                /\ 10 <= int_of(first_digits(message_text))
                /\ int_of(first_digits(message_text)) <= 120
          [] state.step = "gender" -> rule_of(gender_rules, 1, message_lower) # 0
          [] state.step \in {"height", "weight"} -> parse_float(message_text).ok
          [] state.step = "body_fat" ->
                \E choice \in DOMAIN body_fat_choices :
                   contains(body_fat_choices[choice], message_text)
          [] state.step = "body_fat_input" ->
                /\ parse_float(message_text).ok
                /\ 5 <= parse_float(message_text).value
                /\ parse_float(message_text).value <= 50
          [] state.step = "activity" -> rule_of(activity_rules, 1, message_lower) # 0
          [] OTHER -> FALSE

\* handle_profile_setup_flow for any text; the write of save_user does not fail
HandleProfileSetupAnswer(user_id, message_text) ==
    /\ route(user_id, message_text) = "handle_profile_setup_flow"
    /\ LET done == profile_setup_flow(user_id, message_text, "none")
       IN  /\ user_states' = [user_states EXCEPT ![user_id] = done.state]
           /\ users' = done.users
           /\ replies' = done.replies
    /\ UNCHANGED <<ledger, clock, calls>>

\* handle_profile_setup_flow for an input that passes the validation
HandleWizardAnswer(user_id, message_text) ==
    /\ route(user_id, message_text) = "handle_profile_setup_flow"
    /\ passes_validation(user_states[user_id], message_text)
    /\ HandleProfileSetupAnswer(user_id, message_text)

\* the answers tried at a step: one text where the wizard stores the text as it
\* is, "25" or "0" for the height and the weight, any answer at the other steps
AnswersAt(step) ==
    IF step \in {"name", "health_goals", "dietary_restrictions"} THEN {MsgLunch}
    ELSE IF step \in {"height", "weight"} THEN {MsgNumber, MsgZero}
    ELSE AnswerTexts

\* the user sends an answer that passes the validation of the step reached
AnswerWizard ==
    \E message_text \in AnswersAt(step_of("U1")) : HandleWizardAnswer("U1", message_text)

\* one user who starts the wizard and answers it
WizardNext ==
    \/ StartProfileSetup("U1", main_commands.start_profile_setup)
    \/ AnswerWizard

\* the user goes on answering as long as an answer changes something
WizardSpec ==
    Init /\ [][WizardNext]_vars /\ WF_vars(AnswerWizard)

(***************************************************************************)
(* The wizard beside an analysis in progress                               *)
(***************************************************************************)

\* the answers sent to the wizard beside the texts of the record flow: "25",
\* "1", the skip button and the measured-value button
SetupAnswers ==
    {MsgNumber, MsgOne, MsgSkipBodyFat, MsgMeasured}

\* the answers tried at a step: none where the wizard stores the text as it is
\* (the meal text is the one sent there), "25" for the height and the weight
SetupAnswersAt(step) ==
    IF step \in {"name", "health_goals", "dietary_restrictions"} THEN {}
    ELSE IF step \in {"height", "weight"} THEN {MsgNumber}
    ELSE SetupAnswers

\* one user: the texts of the record flow, the answers to the wizard, and the
\* later stages of an analysis the user started
SetupNext ==
    \/ \E message_text \in DeliveryTexts : HandleDeliveryMessage("U1", message_text)
    \/ \E message_text \in SetupAnswersAt(step_of("U1")) :
          HandleProfileSetupAnswer("U1", message_text)
    \/ \E outcome \in DeliveryOutcomes : CallGenerator("U1", outcome)
    \/ \E push_outcome \in PushOutcomes : ShowMealRecordConfirmation("U1", push_outcome)

SetupSpec ==
    Init /\ [][SetupNext]_vars
(***************************************************************************)
(* Properties                                                              *)
(***************************************************************************)

\* the user has a pending confirmation
pending_confirmation(user_id) ==
    step_of(user_id) = "confirm_meal_record"

\* the one reply of the last handled message
replied(user_id, text) ==
    replies = <<Message(user_id, "reply", text)>>

\* the sum of a nutrient over the MealRecords of a user and a date
RECURSIVE nutrient_sum(_, _, _, _)
nutrient_sum(records, user_id, date, nutrient) ==
    IF records = <<>> THEN 0
    ELSE (IF Head(records).user_id = user_id /\ DATE(Head(records).recorded_at) = date
          THEN Head(records).nutrition[nutrient] ELSE 0)
         + nutrient_sum(Tail(records), user_id, date, nutrient)

\* a statement of save_meal_record raises when it saves this description
write_fails(fail, meal_description) ==
    \/ fail \in {"insert", "commit1", "daily", "commit2"}
    \/ /\ fail \in {"pref1", "pref2"}
       /\ pref_fail_after(fail) < Len(text_table[meal_description].keywords)

\* C1: in every state, whatever confirms, failed confirms and re-submissions led
\* to it, the meal_count of each aggregate row is the number of MealRecord rows
\* of its user and date
C1_MealCountIsRecordCount ==
    \A r \in daily_nutrition :
        r.meal_count = record_count(meal_records, r.user_id, r.date)

\* C2: a confirm in which a write fails (the MealRecord insert, the aggregate
\* upsert or a FoodPreference update) leaves every table as it was
C2_FailingWriteRollsBack ==
    [][\A user_id \in Users, fail \in FailPoints :
          (/\ pending_confirmation(user_id)
           /\ write_fails(fail, user_states[user_id].confirm_data.food_description)
           /\ ConfirmMealRecord(user_id, TextConfirm, fail))
          => UNCHANGED store]_vars

\* C3: right after a successful confirm, each nutrient total of the aggregate row
\* of the user and today is the sum of that nutrient over all MealRecord rows of
\* that user and date
C3_TotalsAreSums ==
    \A user_id \in Users :
        replied(user_id, "success_text") =>
            \A r \in daily_nutrition :
                (r.user_id = user_id /\ r.date = today) =>
                    \A n \in Nutrients :
                        r.totals[n] = nutrient_sum(meal_records, user_id, r.date, n)

\* the row a confirm of the user's pending confirmation is to insert
pending_row(user_id) ==
    LET confirm_data == user_states[user_id].confirm_data
    IN  [user_id |-> user_id,
         meal_type |-> confirm_data.meal_type,
         meal_description |-> confirm_data.food_description,
         nutrition_analysis |-> confirm_data.analysis_result,
         nutrition |-> confirm_data.nutrition_data,
         recorded_at |-> now]

\* this step updates the aggregate of the user and today once with the pending
\* nutrients (its row is inserted, or the nutrients are added to its totals) and
\* touches no other aggregate row
aggregate_updated_once(user_id) ==
    LET mine(r) == r.user_id = user_id /\ r.date = today
        before == {r \in daily_nutrition : mine(r)}
        after == {r \in daily_nutrition' : mine(r)}
        added == user_states[user_id].confirm_data.nutrition_data
    IN  /\ {r \in daily_nutrition' : ~mine(r)} = {r \in daily_nutrition : ~mine(r)}
        /\ Cardinality(before) <= 1
        /\ Cardinality(after) = 1
        /\ \A r \in after :
              /\ r.totals = [n \in Nutrients |->
                               IF before = {} THEN added[n]
                               ELSE (CHOOSE b \in before : TRUE).totals[n] + added[n]]
              /\ \A b \in before : b.id = r.id

\* this step answers the user
answers(user_id) ==
    replies' # <<>> /\ replies'[1].to = user_id

\* this step handles the confirm text of a user with a pending confirmation
confirms(user_id) ==
    /\ pending_confirmation(user_id)
    /\ answers(user_id)
    /\ HandleTextMessage(user_id, TextConfirm)

C5_StrayConfirmIsReminded ==
    [][\A user_id \in Users :
          (/\ step_of(user_id) = "normal"
           /\ answers(user_id)
           /\ HandleTextMessage(user_id, TextConfirm))
          => /\ replies' = <<Message(user_id, "reply", "reminder_text")>>
             /\ UNCHANGED store]_vars

\* C6: the reject text of a user with a pending confirmation clears the pending
\* confirmation, sets the step to normal and writes no table
C6_RejectClearsPending ==
    [][\A user_id \in Users :
          (/\ pending_confirmation(user_id)
           /\ answers(user_id)
           /\ HandleTextMessage(user_id, TextReject))
          => /\ user_states' = [user_states EXCEPT ![user_id] = normal_state]
             /\ UNCHANGED store]_vars

\* C6 witness: a reject has just been answered while the store holds a record
C6_Rejected ==
    \E user_id \in Users :
        /\ replied(user_id, "retry_text")
        /\ user_states[user_id] = normal_state
        /\ meal_records # <<>>

\* the texts of the model that are neither confirm nor reject nor a cancel or
\* restart keyword
OtherTexts ==
    {text \in Texts :
        /\ text \notin {TextConfirm, TextReject}
        /\ strip(lower(text)) \notin cancel_keywords \cup restart_keywords}

\* C7: any other text of a user with a pending confirmation is answered with the
\* prompt again; the step, the pending confirmation and every table stay as they are
C7_OtherTextKeepsPending ==
    [][\A user_id \in Users, text \in OtherTexts :
          (/\ pending_confirmation(user_id)
           /\ answers(user_id)
           /\ HandleTextMessage(user_id, text))
          => /\ replies' = <<Message(user_id, "reply", "reminder_text")>>
             /\ UNCHANGED <<user_states, store>>]_vars

\* C7 witness: the prompt has just been sent again to a user whose confirmation is
\* still pending
C7_Reminded ==
    \E user_id \in Users :
        /\ replied(user_id, "reminder_text")
        /\ pending_confirmation(user_id)
        /\ user_states[user_id].confirm_data.food_description = MsgLunch

\* the cancel and restart keywords among the texts of the model
CancelTexts ==
    {text \in Texts : strip(lower(text)) \in cancel_keywords \cup restart_keywords}

\* C8: a cancel or restart keyword, in whatever step the user is, leaves the user
\* in normal with neither wizard data nor a pending confirmation, and leaves the
\* users table and every ledger table unchanged
C8_CancelDiscardsConversation ==
    [][\A user_id \in Users, text \in CancelTexts :
          (answers(user_id) /\ HandleTextMessage(user_id, text))
          => /\ user_id \in DOMAIN user_states' => user_states'[user_id] = normal_state
             /\ \A other \in DOMAIN user_states \ {user_id} :
                   /\ other \in DOMAIN user_states'
                   /\ user_states'[other] = user_states[other]
             /\ UNCHANGED store]_vars

\* C8 witness: a cancel has just been answered while a profile and a record are stored
C8_Cancelled ==
    \E user_id \in Users :
        /\ replied(user_id, "cancel_text")
        /\ user_id \in DOMAIN user_states
        /\ user_states[user_id] = normal_state
        /\ user_id \in DOMAIN users
        /\ meal_records # <<>>

\* C9: a step that changes meal_records is the confirm of a user with a pending
\* confirmation, and it appends the row of that user's pending confirmation
C9_OnlyConfirmInserts ==
    [][meal_records' # meal_records =>
          \E user_id \in Users :
              /\ confirms(user_id)
              /\ meal_records' = Append(meal_records, pending_row(user_id))]_vars

\* C9 witness: a confirm has just added a second record, after a profile was stored
C9_RecordConfirmed ==
    \E user_id \in Users :
        /\ replied(user_id, "success_text")
        /\ user_id \in DOMAIN users
        /\ Len(meal_records) = 2
        /\ meal_records[2].user_id = user_id

\* C10: no step updates or deletes a row of meal_records: the rows before the
\* step are the first rows after it, unchanged
C10_MealRecordsAppendOnly ==
    [][/\ Len(meal_records') >= Len(meal_records)
       /\ \A i \in 1..Len(meal_records) : meal_records'[i] = meal_records[i]]_vars

\* C10 witness: the process has just started, with maintenance, over a ledger of
\* two records
C10_RestartedOverRecords ==
    /\ user_states = Empty
    /\ replies = <<>>
    /\ Len(meal_records) = 2
    /\ daily_nutrition # {}


(***************************************************************************)
(* The aggregate table and its maintenance                                 *)
(***************************************************************************)

\* the rows of a daily_nutrition table for the user and date of row r
rows_of(daily, r) ==
    {s \in daily : s.user_id = r.user_id /\ s.date = r.date}

\* the table has a (user, date) pair with more than one row
has_duplicates(daily) ==
    \E r \in daily : Cardinality(rows_of(daily, r)) > 1

\* C11: in every reachable state there is at most one daily_nutrition row per
\* (user, date); no sequence of confirms creates a second row for a pair that
\* already has one
C11_OneAggregatePerUserAndDate ==
    \A r \in daily_nutrition : rows_of(daily_nutrition, r) = {r}

\* a second record of a day has been confirmed and counted in the row of the first
C11_SecondConfirmOfTheDay ==
    \E r \in daily_nutrition :
        /\ r.meal_count = 2
        /\ record_count(meal_records, r.user_id, r.date) = 2

\* C12: for every (user, date) with more than one daily_nutrition row, a completed
\* run of clean_duplicate_nutrition_records leaves exactly one row for the pair,
\* the one of smallest id with its totals, and sets its meal_count to the number
\* of meal_records rows of the pair
C12_RepairKeepsEarliest ==
    [][CleanDuplicateNutritionRecords(FALSE) =>
          \A r \in daily_nutrition :
              LET before == rows_of(daily_nutrition, r)
                  after == rows_of(daily_nutrition', r)
              IN  Cardinality(before) > 1 =>
                      /\ Cardinality(after) = 1
                      /\ \A k \in after :
                            /\ \E b \in before :
                                  /\ b.id = k.id
                                  /\ b.totals = k.totals
                                  /\ \A s \in before : b.id <= s.id
                            /\ k.meal_count =
                                  record_count(meal_records, r.user_id, r.date)]_vars

\* the scenario of two or more rows of a past day with meal_counts 2 and 3 and
\* four meal_records: one row is left, the first, with meal_count 4
C12_RepairedToFour ==
    \E r \in daily_nutrition :
        /\ r.date # today
        /\ r.id = 1
        /\ r.meal_count = 4
        /\ record_count(meal_records, r.user_id, r.date) = 4
        /\ rows_of(daily_nutrition, r) = {r}

\* C13: a completed run of clean_duplicate_nutrition_records leaves a store that
\* a second run does not change, and a run on a store without duplicates changes
\* nothing
C13_RepairIsIdempotent ==
    [][CleanDuplicateNutritionRecords(FALSE) =>
          /\ clean_duplicate_nutrition_records(daily_nutrition', meal_records')
                = daily_nutrition'
          /\ ~has_duplicates(daily_nutrition) => UNCHANGED store]_vars

\* the repair has run over a duplicated pair of a past day that has no meal_records
C13_RepairedToZero ==
    /\ ~has_duplicates(daily_nutrition)
    /\ \E r \in daily_nutrition :
          /\ r.date # today
          /\ r.meal_count = 0
          /\ record_count(meal_records, r.user_id, r.date) = 0

\* C14: after a completed startup maintenance every daily_nutrition row, of every
\* user and date, has meal_count equal to the number of meal_records rows of its
\* user and date
C14_StartupFixesEveryCount ==
    [][Startup(FALSE, FALSE) =>
          \A r \in daily_nutrition' :
              r.meal_count = record_count(meal_records', r.user_id, r.date)]_vars
\* the nutrient dict stored with the pending confirmation of a user
pending_nutrition(user_id) ==
    user_states[user_id].confirm_data.nutrition_data

\* the user has a pending confirmation for this description, analysed from this
\* outcome of the generator
pending_analysis(user_id, food_description, outcome) ==
    /\ pending_confirmation(user_id)
    /\ user_states[user_id].confirm_data.food_description = food_description
    /\ user_states[user_id].confirm_data.analysis_result =
          (IF outcome.raised THEN estimate_text(food_description) ELSE outcome.content)

\* C15: whatever the description and the outcome of the generator's call, the
\* nutrient dict handed to the confirmation has exactly the six keys, each with a
\* value above zero
C15_PendingNutritionIsPositive ==
    \A user_id \in Users :
        pending_confirmation(user_id)
        => /\ DOMAIN pending_nutrition(user_id) = Nutrients
           /\ \A n \in Nutrients : pending_nutrition(user_id)[n] > 0

\* C15 witness: rice is pending after a failed call of the generator; the table
\* gives it no sugar, and the dict holds the floor of 5 g
C15_RiceWithFlooredSugar ==
    \E user_id \in Users :
        /\ pending_analysis(user_id, DescRice, GeneratorFailure)
        /\ smart_estimate_nutrition_from_description(DescRice).sugar = 0
        /\ pending_nutrition(user_id).sugar = default_values.sugar

\* C16: when the generator's call raises, the analysis goes on with the estimate
\* from the description: the user gets a pending confirmation whose dict is that
\* estimate with the floors, and the confirmation is pushed, not an error
C16_GeneratorFailureFallsThrough ==
    [][\A user_id \in Users, food_description \in Descriptions :
          AnalyzeFoodDescriptionWithConfirmation(user_id, food_description, GeneratorFailure)
          => /\ user_id \in DOMAIN user_states'
             /\ user_states'[user_id].step = "confirm_meal_record"
             /\ user_states'[user_id].confirm_data.nutrition_data =
                   with_floors(with_floors(
                       smart_estimate_nutrition_from_description(food_description),
                       default_values), min_values)
             /\ replies'[Len(replies')] = Message(user_id, "push", "confirmation_display")
             /\ \A i \in 1..Len(replies') : replies'[i].text # "error_message"]_vars

\* C16 witness: soy milk is pending with the estimate text after a failed call,
\* and the confirmation has been pushed
C16_PendingAfterFailure ==
    \E user_id \in Users :
        /\ pending_analysis(user_id, DescSoyMilk, GeneratorFailure)
        /\ replies[Len(replies)] = Message(user_id, "push", "confirmation_display")

\* the descriptions of the model that name a drink of drink_database and no quantity
NoQuantityDrinks ==
    {DescSoyMilk, DescCoffee, DescMilkTea}

\* the row of drink_database for the drink a description names
reference_row(food_description) ==
    drink_database[first_row(drink_database, 1, lower(food_description))].nutrition

\* C17: for a drink of the table with no quantity, the dict handed to the
\* confirmation is the drink's row of 330 mL, whatever the generator's outcome
C17_DrinkWithoutQuantityIsReferenceRow ==
    \A user_id \in Users :
        (/\ pending_confirmation(user_id)
         /\ user_states[user_id].confirm_data.food_description \in NoQuantityDrinks)
        => pending_nutrition(user_id) =
              reference_row(user_states[user_id].confirm_data.food_description)

\* C18: for coffee with no quantity, the dict handed to the confirmation is the
\* row of black coffee: 7 kcal, 1 g of carbohydrate, nothing else
C18_CoffeeIsBlackCoffeeRow ==
    \A user_id \in Users, outcome \in GeneratorOutcomes :
        pending_analysis(user_id, DescCoffee, outcome)
        => pending_nutrition(user_id) = N(7, 1, 0, 0, 0, 0)

\* extract_nutrition_from_analysis for every answer of the model
extracted_table ==
    [prose \in Proses |-> extract_nutrition_from_analysis(prose)]

\* extract_nutrition_from_analysis_with_validation for every description and
\* every answer of the model
validated_table ==
    [food_description \in Descriptions |->
        [prose \in Proses |->
            extract_nutrition_from_analysis_with_validation(prose, food_description)]]

\* get_reasonable_nutrition_data for every description of the model
reasonable_table ==
    [food_description \in Descriptions |-> get_reasonable_nutrition_data(food_description)]

\* the descriptions of the model that name a drink of drink_database with
\* '1杯' or '250ml'
CupDrinks ==
    {DescSoyMilkCup, DescMilkTea250}

\* every nutrient is within half a unit of the row's value times 250/330
\* (the values are in tenths)
scaled_within_rounding(nutrition_data, row) ==
    \A n \in Nutrients :
        /\ 2 * (330 * nutrition_data[n] - 250 * row[n]) <= 330 * 10
        /\ 2 * (250 * row[n] - 330 * nutrition_data[n]) <= 330 * 10

WaterDescriptions ==
    {DescWater, DescWaterCup}

\* C20: for plain water, with a quantity or without, whatever figures the
\* generator gave, extract_nutrition_from_analysis_with_validation and
\* get_reasonable_nutrition_data give zero for each of the six nutrients
C20_WaterIsAllZero ==
    [][\A user_id \in Users, food_description \in WaterDescriptions,
          outcome \in GeneratorOutcomes :
          (/\ AnalyzeFoodDescriptionWithConfirmation(user_id, food_description, outcome)
           /\ ~outcome.raised)
          => \A n \in Nutrients :
                /\ validated_table[food_description][outcome.content][n] = 0
                /\ reasonable_table[food_description][n] = 0]_vars

\* C20 witness: a cup of water is pending after the generator described a meal of
\* 720 kcal
C20_WaterPendingAfterMealFigures ==
    \E user_id \in Users :
        /\ pending_analysis(user_id, DescWaterCup, [raised |-> FALSE, content |-> ProseMeal])
        /\ extracted_table[ProseMeal].calories = 7200

\* the handler the rule order of the intents gives a text: a suggestion keyword,
\* else a consultation keyword, else a question mark, else a record
handler_by_rule_order(message_text) ==
    IF contains_any(suggestion_keywords, lower(message_text))
    THEN "provide_meal_suggestions"
    ELSE IF contains_any(consultation_keywords, lower(message_text))
    THEN "provide_food_consultation"
    ELSE IF \E i \in 1..Len(message_text) : message_text[i] \in {"?", "UFF1F"}
    THEN "provide_food_consultation"
    ELSE "analyze_food_description_with_confirmation"

\* the handler that answered the last message
answering_handler ==
    IF replies[1].text = "analyzing" THEN "analyze_food_description_with_confirmation"
    ELSE replies[1].text

\* C21: a text sent in step normal that is no keyword and no command is always
\* answered by exactly one of the three handlers of the intents, the one of the
\* first rule that applies: suggestion keyword, consultation keyword, question
\* mark, else record; so the same text always has the same intent
C21_IntentByRuleOrder ==
    [][\A user_id \in Users, message_text \in IntentTexts :
          (step_of(user_id) = "normal" /\ HandleIntentMessage(user_id, message_text))
          => /\ replies' # <<>>
             /\ replies'[1].to = user_id
             /\ answering_handler' = handler_by_rule_order(message_text)]_vars

\* C21 witness: the text with a suggestion keyword, a consultation keyword and a
\* question mark has been answered with suggestions
C21_SuggestionBeforeQuestionMark ==
    /\ handler_by_rule_order(MsgSuggestOrConsult) = "provide_meal_suggestions"
    /\ contains_any(consultation_keywords, MsgSuggestOrConsult)
    /\ \E user_id \in Users :
          replies = <<Message(user_id, "reply", "provide_meal_suggestions")>>

\* the text is no valid answer at a step of the wizard: no number or a number out
\* of range at age, no number at height, weight and body_fat_input or a body fat
\* out of range, no known token at gender and activity, none of the three choices
\* at body_fat; the other steps take any text
invalid_input(step, message_text) ==
    CASE step = "age" ->
            \/ first_digits(message_text) = <<>>
            \/ int_of(first_digits(message_text)) < 10
            \/ int_of(first_digits(message_text)) > 120
      [] step = "gender" ->
            \A i \in 1..Len(gender_rules) :
                strip(lower(message_text)) \notin gender_rules[i].words
      [] step \in {"height", "weight"} -> ~parse_float(message_text).ok
      [] step = "body_fat" ->
            \A choice \in DOMAIN body_fat_choices :
                ~contains(body_fat_choices[choice], message_text)
      [] step = "body_fat_input" ->
            \/ ~parse_float(message_text).ok
            \/ parse_float(message_text).value < 5
            \/ parse_float(message_text).value > 50
      [] step = "activity" ->
            \A i \in 1..Len(activity_rules) :
                strip(lower(message_text)) \notin activity_rules[i].words
      [] OTHER -> FALSE

\* C22: at every step of the wizard an invalid answer leaves the step, the data
\* collected so far and the users table as they are, and is answered with one
\* reply, the question again
C22_InvalidInputReprompts ==
    [][\A user_id \in Users, message_text \in Texts :
          (/\ invalid_input(step_of(user_id), message_text)
           /\ \E fail \in {"none", "insert"} :
                 HandleProfileSetupFlow(user_id, message_text, fail))
          => /\ user_states'[user_id] = user_states[user_id]
             /\ users' = users
             /\ Len(replies') = 1
             /\ replies'[1].to = user_id
             /\ replies'[1].via = "reply"]_vars

\* the fields of a users row that the wizard collects
profile_inputs ==
    {"name", "age", "gender", "height", "weight", "activity_level", "health_goals",
     "dietary_restrictions", "body_fat_percentage"}

\* the derived fields of a users row are the ones its own inputs give: the bmr
\* of the gender's equation (in thousandths), the tdee of the activity factor (in
\* hundredths of that), and the targets as shares of the tdee
derived_from_inputs(row) ==
    /\ row.bmr = (IF row.gender = gender_rules[1].gender
                  THEN 88362 + 13397 * row.weight + 4799 * row.height - 5677 * row.age
                  ELSE 447593 + 9247 * row.weight + 3098 * row.height - 4330 * row.age)
    /\ row.tdee = row.bmr * activity_multiplier(row.activity_level)
    /\ row.target_calories = row.tdee
    /\ row.target_carbs = row.tdee \div 8
    /\ row.target_protein = row.tdee \div 20
    /\ row.target_fat = row.tdee \div 30

\* C23: the users table changes only when the answer to the wizard's last
\* question is handled; then the row of that user alone is written, whole: its
\* inputs are the answers collected, and every derived field is computed from
\* them; no other message, cancel and restart included, changes a row
C23_ProfileReplacedOnlyAtCompletion ==
    [][users' # users =>
          \E user_id \in Users, message_text \in Texts :
              /\ step_of(user_id) = "dietary_restrictions"
              /\ HandleProfileSetupFlow(user_id, message_text, "none")
              /\ DOMAIN users' = DOMAIN users \cup {user_id}
              /\ \A other \in DOMAIN users \ {user_id} : users'[other] = users[other]
              /\ users'[user_id].user_id = user_id
              /\ users'[user_id].dietary_restrictions = message_text
              /\ \A field \in profile_inputs \ {"dietary_restrictions"} :
                    users'[user_id][field] = user_states[user_id].data[field]
              /\ derived_from_inputs(users'[user_id])]_vars

\* C23 witness: the wizard has just been completed and the row is stored
C23_ProfileSaved ==
    \E user_id \in Users :
        /\ replied(user_id, "profile_saved")
        /\ user_id \in DOMAIN users
        /\ users[user_id].bmr > 0
        /\ step_of(user_id) = "normal"

\* C24: a confirm answered with the save-failed message has persisted no
\* MealRecord of the pending entry: the records are the ones before the confirm
C24_SaveFailedPersistsNothing ==
    [][\A user_id \in Users :
          (/\ pending_confirmation(user_id)
           /\ \E fail \in FailPoints : ConfirmMealRecord(user_id, TextConfirm, fail)
           /\ replies' = <<Message(user_id, "reply", "error_message")>>)
          => meal_records' = meal_records]_vars

\* C25: a user's step becomes confirm_meal_record only in a step that delivers
\* the confirm/reject prompt of the stored pending entry
C25_PendingOnlyIfPromptDelivered ==
    [][\A user_id \in Users :
          (/\ \E push_outcome \in PushOutcomes :
                 ShowMealRecordConfirmation(user_id, push_outcome)
           /\ pending_confirmation(user_id)')
          => replies' = <<Message(user_id, "push", "confirmation_display")>>]_vars

\* C28: in the record flow the generator is called only after the
\* acknowledgement has been replied, and the call changes no user's state; the
\* prompt, when it is sent, is a push of the step that follows the extraction;
\* a user's step becomes confirm_meal_record only in that step, with the
\* nutrients the extraction gave
C28_AcknowledgeExtractThenPrompt ==
    [][\A user_id \in Users :
          /\ (\E outcome \in DeliveryOutcomes : CallGenerator(user_id, outcome))
                => /\ analyses[user_id].sent = <<Message(user_id, "reply", "analyzing")>>
                   /\ user_states' = user_states
                   /\ replies' = <<>>
          /\ (\E i \in DOMAIN replies' : replies'[i].to = user_id
                                         /\ replies'[i].text = "confirmation_display")
                => /\ user_id \in DOMAIN analyses
                   /\ analyses[user_id].pc = "extracted"
                   /\ replies' = <<Message(user_id, "push", "confirmation_display")>>
          /\ (pending_confirmation(user_id)' /\ ~pending_confirmation(user_id))
                => /\ user_id \in DOMAIN analyses
                   /\ analyses[user_id].pc = "extracted"
                   /\ analyses[user_id].sent = <<Message(user_id, "reply", "analyzing")>>
                   /\ user_states'[user_id].confirm_data.nutrition_data =
                          analyses[user_id].nutrition_data]_vars

\* C28 witness: the prompt of a user has just been pushed, the call is over, and
\* the user's pending entry holds extracted nutrients
C28_PromptPushedAfterExtraction ==
    \E user_id \in Users :
        /\ replies = <<Message(user_id, "push", "confirmation_display")>>
        /\ user_id \notin DOMAIN analyses
        /\ pending_confirmation(user_id)
        /\ user_states[user_id].confirm_data.nutrition_data.calories > 0

\* the answers of the model in which neither the primary extraction nor the
\* forced extraction finds a figure
ProsesWithoutFigures ==
    {prose \in Proses :
        /\ extract_value(calories_patterns, prose, 0 - 1) = 0 - 1
        /\ extract_value(carbs_patterns, prose, 0 - 1) = 0 - 1
        /\ extract_value(protein_patterns, prose, 0 - 1) = 0 - 1
        /\ extract_value(fat_patterns, prose, 0 - 1) = 0 - 1
        /\ \A n \in Nutrients \ {"sugar"} : force_extract_nutrition_from_text(prose)[n] = 0}

\* the keyword lookup on every description of the model, with the floors
lookup_table ==
    [food_description \in Descriptions |->
        with_floors(with_floors(smart_estimate_nutrition_from_description(food_description),
                                default_values), min_values)]

\* C26: when the generator answers a prose in which the primary extraction and
\* the forced extraction find no figure, the dict handed to the confirmation is
\* the one the keyword lookup on the description gives
C26_NoFigureFallsToKeywordLookup ==
    [][\A user_id \in Users, food_description \in Descriptions, prose \in ProsesWithoutFigures :
          AnalyzeFoodDescriptionWithConfirmation(user_id, food_description,
                                                 [raised |-> FALSE, content |-> prose])
          => user_states'[user_id].confirm_data.nutrition_data =
                lookup_table[food_description]]_vars

\* the rows of a reference table whose keyword occurs in a description
rows_matched(table, food_description) ==
    {i \in 1..Len(table) : contains(table[i].keyword, lower(food_description))}

\* the sum of a nutrient over a set of rows of a reference table
RECURSIVE sum_of_rows(_, _, _)
sum_of_rows(table, rows, nutrient) ==
    IF rows = {} THEN 0
    ELSE LET i == CHOOSE j \in rows : TRUE
         IN  table[i].nutrition[nutrient] + sum_of_rows(table, rows \ {i}, nutrient)

\* the sum of the matched rows of a table, with the floors of the record flow
sum_of_matched(table, food_description) ==
    with_floors(with_floors(
        [n \in Nutrients |-> sum_of_rows(table, rows_matched(table, food_description), n)],
        default_values), min_values)

\* the two tables of get_reasonable_nutrition_data, the drinks first
reasonable_database ==
    drink_database \o food_database

\* the descriptions of the model with several keywords of a table and no quantity
SeveralKeywords(table) ==
    {food_description \in Descriptions :
        /\ Cardinality(rows_matched(table, food_description)) >= 2
        /\ ~contains_any(portion_keywords_of_reasonable, food_description)}

\* C27: for a description with several keywords of the reference table, the dict
\* a keyword lookup gives is the sum of all the matched rows: after a failed
\* call of the generator (smart_estimate_nutrition_from_description) and after
\* an answer above 1000 kcal, which the validation replaces by
\* get_reasonable_nutrition_data
C27_LookupSumsMatchedRows ==
    [][\A user_id \in Users :
          /\ \A food_description \in SeveralKeywords(food_nutrition_db) :
                AnalyzeFoodDescriptionWithConfirmation(user_id, food_description,
                                                       GeneratorFailure)
                => user_states'[user_id].confirm_data.nutrition_data =
                      sum_of_matched(food_nutrition_db, food_description)
          /\ \A food_description \in SeveralKeywords(reasonable_database),
                   prose \in Proses :
                (/\ extracted_table[prose].calories > 10000
                 /\ validated_table[food_description][prose] =
                       reasonable_table[food_description]
                 /\ AnalyzeFoodDescriptionWithConfirmation(user_id, food_description,
                        [raised |-> FALSE, content |-> prose]))
                => user_states'[user_id].confirm_data.nutrition_data =
                      sum_of_matched(reasonable_database, food_description)]_vars

\* the part of C27 on smart_estimate_nutrition_from_description alone
C27_SmartEstimateSumsMatchedRows ==
    [][\A user_id \in Users, food_description \in SeveralKeywords(food_nutrition_db) :
          AnalyzeFoodDescriptionWithConfirmation(user_id, food_description, GeneratorFailure)
          => user_states'[user_id].confirm_data.nutrition_data =
                sum_of_matched(food_nutrition_db, food_description)]_vars

\* the rows of food_preferences of a user and a keyword
preference_rows(prefs, user_id, keyword) ==
    {i \in 1..Len(prefs) : prefs[i].user_id = user_id /\ prefs[i].food_item = keyword}

\* the frequency stored for a user and a keyword, 0 if there is no row
frequency_of(prefs, user_id, keyword) ==
    IF preference_rows(prefs, user_id, keyword) = {} THEN 0
    ELSE prefs[CHOOSE i \in preference_rows(prefs, user_id, keyword) : TRUE].frequency

\* the keywords of the fixed list
FoodKeywords ==
    {food_keywords[i] : i \in 1..Len(food_keywords)}

\* C29: a confirm answered with the success text raises by exactly 1 the
\* frequency of (user, keyword) for every keyword of the list that occurs in the
\* description, a row being created when there is none; every other frequency,
\* of another keyword or another user, is unchanged, and no pair has two rows
C29_ConfirmCountsEachKeyword ==
    [][\A user_id \in Users :
          (/\ pending_confirmation(user_id)
           /\ \E fail \in FailPoints : ConfirmMealRecord(user_id, TextConfirm, fail)
           /\ replies' = <<Message(user_id, "reply", "success_text")>>)
          => \A other \in Users, keyword \in FoodKeywords :
                /\ Cardinality(preference_rows(food_preferences', other, keyword)) <= 1
                /\ frequency_of(food_preferences', other, keyword) =
                      frequency_of(food_preferences, other, keyword)
                         + (IF other = user_id
                               /\ contains(keyword,
                                      user_states[user_id].confirm_data.food_description)
                            THEN 1 ELSE 0)]_vars

\* C29 without the confirms in which a statement on food_preferences raises
C29_ConfirmCountsEachKeywordUnlessRaised ==
    [][\A user_id \in Users :
          (/\ pending_confirmation(user_id)
           /\ ConfirmMealRecord(user_id, TextConfirm, "none"))
          => \A other \in Users, keyword \in FoodKeywords :
                /\ Cardinality(preference_rows(food_preferences', other, keyword)) <= 1
                /\ frequency_of(food_preferences', other, keyword) =
                      frequency_of(food_preferences, other, keyword)
                         + (IF other = user_id
                               /\ contains(keyword,
                                      user_states[user_id].confirm_data.food_description)
                            THEN 1 ELSE 0)]_vars

\* C30: in a confirm that saves, the date under which the aggregate row is
\* written is the date of the MealRecord just inserted, and the row of the user
\* and that date counts at least this record
C30_AggregateDateIsRecordDate ==
    [][\A user_id \in Users :
          (/\ pending_confirmation(user_id)
           /\ ConfirmMealRecord(user_id, TextConfirm, "none"))
          => /\ today = DATE(meal_records'[Len(meal_records')].recorded_at)
             /\ \A r \in daily_nutrition' :
                   (r.user_id = user_id /\ r.date = today) => r.meal_count >= 1]_vars

\* the messages that handle_text_message takes before it looks at the user's step
EscapeTexts ==
    {text \in Texts : text_table[text].route \in {"handle_cancel_request", "restart"}}

\* C31: a message handled while its user is in a wizard step or has a pending
\* confirmation is taken by that flow, unless it is a cancel or a restart: with
\* a pending confirmation, a confirm or a reject ends it and any other message
\* leaves the user's state and the store as they are and is answered with the
\* reminder; in a wizard step the message leaves the user in the wizard or in
\* state normal, leaves the ledger alone, creates no pending confirmation and
\* is answered by no command and no analysis
C31_ActiveFlowConsumesMessage ==
    [][\A user_id \in Users :
          step_of(user_id) # "normal"
          => IF pending_confirmation(user_id)
             THEN \A message_text \in Texts \ EscapeTexts :
                     HandleTextMessage(user_id, message_text)
                     => \/ /\ message_text \in {TextConfirm, TextReject}
                           /\ user_states'[user_id] = normal_state
                        \/ /\ message_text \notin {TextConfirm, TextReject}
                           /\ user_states' = user_states
                           /\ replies' = <<Message(user_id, "reply", "reminder_text")>>
                           /\ UNCHANGED store
             ELSE \/ /\ user_id \in DOMAIN user_states'
                     /\ ~pending_confirmation(user_id)'
                     /\ UNCHANGED ledger
                     /\ \A i \in DOMAIN replies' :
                           replies'[i].text \notin read_only_routes \cup {"analyzing"}
                  \/ ~\E message_text \in Texts \ EscapeTexts :
                         HandleTextMessage(user_id, message_text)]_vars

\* C31 witness: a user with a pending confirmation has sent the command of the
\* meal suggestions, got the reminder, and the pending entry is still there
C31_CommandAnsweredWithReminder ==
    \E user_id \in Users :
        /\ pending_confirmation(user_id)
        /\ replied(user_id, "reminder_text")
        /\ text_table[MsgSuggest].route \in read_only_routes
        /\ user_states[user_id].confirm_data.food_description = MsgLunch

\* the MealRecord row a call of the confirmation handler inserts
row_of_call(call) ==
    meal_record_row(confirmations[call].user_id,
                    confirmations[call].confirm_data.meal_type,
                    confirmations[call].confirm_data.food_description,
                    confirmations[call].confirm_data.analysis_result,
                    confirmations[call].confirm_data.nutrition_data)

\* C32 as stated: a pending entry is committed at most once, so a call of the
\* confirmation handler that inserts a MealRecord finds the entry it read still
\* pending (a commit of the entry would have cleared it)
C32_EntryCommittedAtMostOnce ==
    [][\A call \in Calls, fail \in {"none", "daily"} :
          (/\ call \in DOMAIN confirmations
           /\ FinishConfirm(call, fail)
           /\ Len(meal_records') > Len(meal_records))
          => /\ pending_confirmation(confirmations[call].user_id)
             /\ user_states[confirmations[call].user_id].confirm_data =
                   confirmations[call].confirm_data]_vars

\* C32 amended: a call of the confirmation handler inserts at most one
\* MealRecord, the row of the entry it read, and leaves its user in step normal
\* with no pending entry, so that a confirm received after the call has finished
\* is not taken as a confirm and commits nothing
C32_CallCommitsItsEntryOnce ==
    [][\A call \in Calls, fail \in {"none", "daily"} :
          (call \in DOMAIN confirmations /\ FinishConfirm(call, fail))
          => /\ Len(meal_records') <= Len(meal_records) + 1
             /\ Len(meal_records') = Len(meal_records) + 1
                   => meal_records'[Len(meal_records')] = row_of_call(call)
             /\ \A user_id \in Users :
                   user_id = confirmations[call].user_id
                   => /\ user_states'[user_id] = normal_state
                      /\ route(user_id, TextConfirm)' # "handle_meal_record_confirmation"]_vars

\* C32 witness: two calls read the same pending entry, both have finished and
\* the entry is in meal_records twice
C32_EntryCommittedTwice ==
    /\ Len(meal_records) = 2
    /\ meal_records[1] = meal_records[2]
    /\ confirmations = Empty
    /\ \E user_id \in Users :
          /\ replied(user_id, "success_text")
          /\ step_of(user_id) = "normal"
          /\ meal_records[1].user_id = user_id

\* the entry of a user in user_states, {'step': 'normal'} when there is none
state_of(user_id) ==
    IF user_id \in DOMAIN user_states THEN user_states[user_id] ELSE normal_state

\* the last handled event was a cancel or a restart of the user
just_reset(user_id) ==
    replied(user_id, "cancel_text") \/ replied(user_id, "restart_text")

\* the steps of the wizard
WizardSteps ==
    {"name", "age", "gender", "height", "weight", "body_fat", "body_fat_input",
     "activity", "health_goals", "dietary_restrictions"}

\* C33 as stated: after a cancel or a restart of a user, and while the user is
\* in a step of the wizard, the user's state changes only when a message of
\* that user is handled
C33_StateKeptUntilNextMessage ==
    [][\A user_id \in Users :
          (/\ just_reset(user_id) \/ step_of(user_id) \in WizardSteps
           /\ state_of(user_id)' # state_of(user_id))
          => \E message_text \in DeliveryTexts :
                HandleDeliveryMessage(user_id, message_text)]_vars

\* C33 amended: the state of a user changes only when a message of that user is
\* handled, or when an analysis of that user that has extracted its nutrients
\* finishes; the latter stores the pending entry of the analysis whatever the
\* user's state is by then
C33_StateChangesByMessageOrAnalysis ==
    [][\A user_id \in Users :
          state_of(user_id)' # state_of(user_id)
          => \/ \E message_text \in DeliveryTexts :
                   HandleDeliveryMessage(user_id, message_text)
             \/ /\ user_id \in DOMAIN analyses
                /\ analyses[user_id].pc = "extracted"
                /\ pending_confirmation(user_id)'
                /\ user_states'[user_id].confirm_data.food_description =
                      analyses[user_id].food_description]_vars

\* C33 witness: a user who described a meal has started the wizard and answered
\* its first question while the analysis of the meal is about to finish
C33_WizardDuringAnalysis ==
    \E user_id \in Users :
        /\ step_of(user_id) = "age"
        /\ user_id \in DOMAIN analyses
        /\ analyses[user_id].pc = "extracted"


\* the rows of a table (a sequence) that belong to a user
rows_of_user(table, user_id) ==
    SelectSeq(table, LAMBDA r : r.user_id = user_id)

\* what the process holds for a user: the entry of user_states, the profile
\* row, the MealRecords, the aggregate rows and the preference rows
holdings(user_id) ==
    [state |-> IF user_id \in DOMAIN user_states THEN <<user_states[user_id]>> ELSE <<>>,
     profile |-> IF user_id \in DOMAIN users THEN <<users[user_id]>> ELSE <<>>,
     records |-> rows_of_user(meal_records, user_id),
     aggregates |-> {r \in daily_nutrition : r.user_id = user_id},
     preferences |-> rows_of_user(food_preferences, user_id)]

\* C34: handling a message of one user changes nothing of what the process
\* holds for any other user: not the entry of user_states (step, pending
\* entry, wizard data), not the profile row, the MealRecords, the aggregate rows
\* or the preference rows, in every interleaving of the two users' messages
C34_OtherUsersUntouched ==
    [][\A user_id \in Users, other \in Users :
          other # user_id
          => \/ holdings(other)' = holdings(other)
             \/ ~\E message_text \in WizardTexts :
                    HandleIsolationMessage(user_id, message_text)]_vars

\* C34 happens: the first user's record has just been saved on the day for
\* which the second user has a profile, a record, an aggregate row and a
\* pending entry of their own
C34_SavedBesideTheNeighbour ==
    /\ replies # <<>>
    /\ replies[1] = Message("U1", "reply", "success_text")
    /\ "U2" \in DOMAIN users
    /\ pending_confirmation("U2")
    /\ rows_of_user(meal_records, "U1") # <<>>
    /\ rows_of_user(meal_records, "U2") # <<>>
    /\ \E r \in daily_nutrition : r.user_id = "U2"
    /\ \E r \in daily_nutrition : r.user_id = "U1"

\* C35: the wizard cannot get stuck: once started, and answered with inputs
\* that pass the validation of their steps (a height of 0 among them), it
\* ends with the profile saved and the user in state normal
C35_WizardEndsWithProfileSaved ==
    (step_of("U1") = "name")
       ~> ("U1" \in DOMAIN users /\ step_of("U1") = "normal")

\* C35, second half, as a state predicate: at no step reached with accepted
\* values does every accepted input raise
C35_SomeAnswerIsNotRaised ==
    ("U1" \in DOMAIN user_states /\ step_of("U1") \notin {"normal", "confirm_meal_record"})
    => \E message_text \in AnswersAt(step_of("U1")) :
          /\ passes_validation(user_states["U1"], message_text)
          /\ profile_setup_flow("U1", message_text, "none").replies # <<>>

\* the steps that follow a step of the wizard in its order; body_fat_input is
\* the optional step between body_fat and activity
next_steps(step) ==
    CASE step = "name" -> {"age"}
      [] step = "age" -> {"gender"}
      [] step = "gender" -> {"height"}
      [] step = "height" -> {"weight"}
      [] step = "weight" -> {"body_fat"}
      [] step = "body_fat" -> {"body_fat_input", "activity"}
      [] step = "body_fat_input" -> {"activity"}
      [] step = "activity" -> {"health_goals"}
      [] step = "health_goals" -> {"dietary_restrictions"}
      [] step = "dietary_restrictions" -> {"normal"}
      [] OTHER -> {}

\* the wizard is entered at its first step, from state normal, with no data
entered_at_name(user_id) ==
    (step_of(user_id)' \in WizardSteps /\ step_of(user_id) \notin WizardSteps)
    => /\ step_of(user_id) = "normal"
       /\ user_states'[user_id] = [step |-> "name", data |-> Empty]

\* the step was left by a cancel or a restart
left_by_reset(user_id) ==
    /\ step_of(user_id)' = "normal"
    /\ just_reset(user_id)'

\* C36 as stated: the wizard is entered at step name, and a step of the wizard
\* changes only to the step that follows it in the order name, age, gender,
\* height, weight, body_fat, (body_fat_input,) activity, health_goals,
\* dietary_restrictions, normal, or to normal by a cancel or a restart
C36_StepsFollowTheOrder ==
    [][\A user_id \in Users :
          /\ entered_at_name(user_id)
          /\ (step_of(user_id) \in WizardSteps /\ step_of(user_id)' # step_of(user_id))
             => \/ step_of(user_id)' \in next_steps(step_of(user_id))
                \/ left_by_reset(user_id)]_vars

\* C36 amended: as stated, or the step is replaced with confirm_meal_record
\* by an analysis of the user that finishes
C36_StepsFollowTheOrderOrArePreempted ==
    [][\A user_id \in Users :
          /\ entered_at_name(user_id)
          /\ (step_of(user_id) \in WizardSteps /\ step_of(user_id)' # step_of(user_id))
             => \/ step_of(user_id)' \in next_steps(step_of(user_id))
                \/ left_by_reset(user_id)
                \/ /\ user_id \in DOMAIN analyses
                   /\ analyses[user_id].pc = "extracted"
                   /\ pending_confirmation(user_id)']_vars

\* C36 happens: the wizard was followed to its end through the optional step:
\* the profile saved holds the measured body fat, and the user is in state normal
C36_WizardCompletedThroughMeasuredValue ==
    /\ "U1" \in DOMAIN users
    /\ users["U1"].body_fat_percentage = 2500
    /\ step_of("U1") = "normal"
    /\ replied("U1", "profile_saved")

\* C37: every text message handled, in whatever state, is answered: when the
\* handler finishes, at least one reply or push message was sent, and what
\* was sent went to the user of the message
C37_EveryMessageAnswered ==
    [][\/ /\ replies' # <<>>
          /\ \A i \in DOMAIN replies' : replies'[i].to = "U1"
       \/ ~\E message_text \in Texts : HandleTextMessage("U1", message_text)]_vars
====
